---- MODULE Spec2Model ----
(***************************************************************************)
(* Model of the record-reconciliation pipeline of the Outbound Dashboard   *)
(* (src/src/data_processor.py, class DataProcessor): sheets_validator,     *)
(* _clean_data, the two-phase Send-Open join, the contacts join and        *)
(* process_files, which strings them together.                             *)
(*                                                                         *)
(* Representation of pandas values:                                        *)
(*   - a text cell is a sequence of one-character strings; the cell that   *)
(*     read_csv leaves empty (NaN) is the one-element sequence NaN;        *)
(*   - a date cell is a record [fmt, d, m, s]: fmt = "dmy" is the text     *)
(*     "d/m/2025 00:00:s" (s counts the seconds of HH:MM:SS), fmt = "mon"  *)
(*     the text "Mon d, 2025, 00:00:s", fmt = "bad" unparseable text,      *)
(*     fmt = "nan" an empty cell, fmt = "ts" a pandas Timestamp and        *)
(*     fmt = "nat" the null timestamp NaT;                                 *)
(*   - a Views/Clicks cell is a record [k, n]: k = "num" a number n,       *)
(*     k = "txt" a non-numeric text, k = "nan" an empty cell;              *)
(*   - a table is a sequence of rows; every row keeps in idx the index     *)
(*     label read_csv gave it (its position in the file), which row        *)
(*     filters never renumber.                                             *)
(***************************************************************************)
EXTENDS Integers, Sequences, FiniteSets, TLC

VARIABLES
    files,                  \* the argument of process_files: role -> uploaded frame
    pc,                     \* position inside process_files
    validation,             \* what sheets_validator returned
    original_send_count,    \* len(send_df) taken before _clean_data
    send_df, open_df, contacts_df,   \* the three working tables
    phase1,                 \* what _phase1_matching returned
    send_open,              \* what _incremental_datetime_join returned
    contacts_result,        \* what _join_with_contacts returned
    result,                 \* the 4-tuple process_files returns
    dashboard,              \* what the dashboard computed from the successful table
    outputs,                \* the files process_files wrote to outputs/
    combined                \* what process_combined_files returned

vars == <<files, pc, validation, original_send_count, send_df, open_df,
          contacts_df, phase1, send_open, contacts_result, result, dashboard,
          outputs, combined>>

----------------------------------------------------------------------------
(* Text cells *)

NaN == <<"nan">>

IsNa(v) == v = NaN

LowerChar(c) ==
    CASE c = "A" -> "a"
      [] c = "B" -> "b"
      [] c = "C" -> "c"
      [] c = "L" -> "l"
      [] OTHER -> c

\* str.lower()
Lower(s) == IF IsNa(s) THEN s ELSE [i \in 1..Len(s) |-> LowerChar(s[i])]

RECURSIVE LStrip(_)
LStrip(s) == IF s # <<>> /\ Head(s) = " " THEN LStrip(Tail(s)) ELSE s

RECURSIVE RStrip(_)
RStrip(s) ==
    IF s # <<>> /\ s[Len(s)] = " " THEN RStrip(SubSeq(s, 1, Len(s) - 1)) ELSE s

\* str.strip() of one cell; the .str accessor leaves NaN as it is
Strip(s) == IF IsNa(s) THEN s ELSE RStrip(LStrip(s))

\* '@' in str(value)
HasAt(s) == \E i \in 1..Len(s) : s[i] = "@"

RECURSIVE BeforeComma(_)
BeforeComma(s) ==
    IF s = <<>> \/ Head(s) = "," THEN <<>> ELSE <<Head(s)>> \o BeforeComma(Tail(s))

\* clean_recipient_comma_split: the part before the first comma, trimmed
clean_recipient_comma_split(value) ==
    IF IsNa(value) THEN value ELSE Strip(BeforeComma(Strip(value)))

\* A column read by read_csv is a float column, with no .str accessor, when
\* every cell of it is empty.
AllNa(rows, Col(_)) == rows # <<>> /\ \A i \in 1..Len(rows) : IsNa(Col(rows[i]))

----------------------------------------------------------------------------
(* Date cells *)

NaT == [fmt |-> "nat", d |-> 0, m |-> 0, s |-> 0]

NaD == [fmt |-> "nan", d |-> 0, m |-> 0, s |-> 0]

Timestamp(d, m, s) == [fmt |-> "ts", d |-> d, m |-> m, s |-> s]

DateText(d, m, s) == [fmt |-> "dmy", d |-> d, m |-> m, s |-> s]

\* A text no parser reads as a date
InvalidDate == [fmt |-> "bad", d |-> 0, m |-> 0, s |-> 0]

\* The text "Jul 13, 2025, 00:00:s"
MonthText(d, m, s) == [fmt |-> "mon", d |-> d, m |-> m, s |-> s]

IsNaDate(v) == v.fmt \in {"nan", "nat"}

\* pd.to_datetime(value, format='%d/%m/%Y %H:%M:%S') succeeds
ParsesWithFormat(v) == v.fmt = "ts" \/ (v.fmt = "dmy" /\ v.d \in 1..31 /\ v.m \in 1..12)

\* pd.to_datetime with the format given a column that holds Timestamps
\* already: read as text, nothing parses
ToDatetimeFormatTextOnly(v) ==
    IF v.fmt = "dmy" /\ ParsesWithFormat(v) THEN Timestamp(v.d, v.m, v.s) ELSE NaT

\* pd.to_datetime(value, format='%d/%m/%Y %H:%M:%S', errors='coerce')
ToDatetimeFormat(v) ==
    IF v.fmt = "ts" THEN v
    ELSE IF ParsesWithFormat(v) THEN Timestamp(v.d, v.m, v.s)
    ELSE NaT

\* pd.to_datetime(value, errors='raise') succeeds: the general parser
ParsesGeneral(v) ==
    \/ v.fmt \in {"ts", "mon"}
    \/ v.fmt = "dmy" /\ v.d \in 1..12 /\ v.m \in 1..31
    \/ v.fmt = "dmy" /\ v.d \in 13..31 /\ v.m \in 1..12

\* pd.to_datetime(value): the general parser reads NN/NN/YYYY month first, and
\* day first only when the first number cannot be a month
ToDatetimeGeneral(v) ==
    CASE v.fmt = "ts" -> v
      [] v.fmt = "mon" -> Timestamp(v.d, v.m, v.s)
      [] v.fmt = "dmy" /\ v.d \in 1..12 -> Timestamp(v.m, v.d, v.s)
      [] OTHER -> Timestamp(v.d, v.m, v.s)

\* parsed_date.strftime('%d/%m/%Y %H:%M:%S')
Strftime(ts) == DateText(ts.d, ts.m, ts.s)

\* base_datetime + pd.Timedelta(seconds=increment); the model's times stay
\* inside one day
AddSeconds(ts, increment) == [ts EXCEPT !.s = @ + increment]

\* convert_date_format of the Open file
convert_date_format(value) ==
    IF IsNaDate(value) THEN value
    ELSE IF ParsesGeneral(value) THEN Strftime(ToDatetimeGeneral(value))
    ELSE value

----------------------------------------------------------------------------
(* Views / Clicks cells *)

Num(n) == [k |-> "num", n |-> n]

NaNum == [k |-> "nan", n |-> 0]

\* A text that is no number
Txt == [k |-> "txt", n |-> 0]

\* pd.to_numeric(value, errors='coerce') followed by fillna(0)
ToNumericFill0(v) == IF v.k = "num" THEN v ELSE Num(0)

----------------------------------------------------------------------------
(* DataProcessor.__init__: required columns and header aliases *)

Roles == <<"send_mails", "open_mails", "contacts">>

required_send_columns == {"recipient_name", "sent_date", "Recipient Email"}

required_open_columns == {"recipient_name", "sent_date", "Views", "Clicks"}

required_contacts_columns == {"Email"}

\* self.column_mappings: per role, the pairs <<user column, system column>>
column_mappings(role) ==
    CASE role = "send_mails" ->
            << <<"Recipient Name", "recipient_name">>,
               <<"Date", "sent_date">>,
               <<"recipient_email", "Recipient Email">>,
               <<"recipient_name", "recipient_name">>,
               <<"sent_date", "sent_date">> >>
      [] role = "open_mails" ->
            << <<"Recipient", "recipient_name">>,
               <<"Sent", "sent_date">>,
               <<"Opens", "Views">>,
               <<"Clicks", "Clicks">>,
               <<"Last Opened", "last_opened">> >>
      [] OTHER ->
            << <<"Email", "Email">> >>

\* file_definitions[role]['required_columns']
required_columns(role) ==
    CASE role = "send_mails" -> required_send_columns
      [] role = "open_mails" -> required_open_columns
      [] OTHER -> required_contacts_columns

----------------------------------------------------------------------------
(* sheets_validator *)

\* df.head(10)
HeadRows == 10

Head10(rows) == SubSeq(rows, 1, IF Len(rows) < HeadRows THEN Len(rows) ELSE HeadRows)

\* Rule 3: the mapping entries for which the file has neither the user column
\* nor the system column
missing_columns(role, available_columns) ==
    LET Missing(p) == p[1] \notin available_columns /\ p[2] \notin available_columns
    IN  SelectSeq(column_mappings(role), Missing)

\* Rule 4: the user columns present in the file that get another name
rename_dict(role, available_columns) ==
    LET m == column_mappings(role)
    IN  {m[i] : i \in {j \in 1..Len(m) : m[j][1] \in available_columns /\ m[j][1] # m[j][2]}}

\* list(df_mapped.columns) after df.rename(columns=rename_dict)
final_columns(role, available_columns) ==
    LET rd == rename_dict(role, available_columns)
    IN  (available_columns \ {p[1] : p \in rd}) \cup {p[2] : p \in rd}

\* Rule 5
missing_required(role, available_columns) ==
    {col \in required_columns(role) : col \notin final_columns(role, available_columns)}

\* Rules 3 to 5 together: the column check passes
ColumnCheck(role, available_columns) ==
    /\ missing_columns(role, available_columns) = <<>>
    /\ missing_required(role, available_columns) = {}

\* Number of rows of a table that satisfy Bad
CountRows(rows, Bad(_)) == Cardinality({i \in 1..Len(rows) : Bad(rows[i])})

\* _validate_data_content: the messages about the first 10 rows
validate_data_content(rows, file_key) ==
    LET head == Head10(rows)
        BadDate(r) == IsNaDate(r.sent_date)
                        \/ (~ParsesWithFormat(r.sent_date) /\ ~ParsesGeneral(r.sent_date))
        BadSendEmail(r) == IsNa(r.Recipient_Email) \/ ~HasAt(r.Recipient_Email)
        BadEmail(r) == IsNa(r.Email) \/ ~HasAt(r.Email)
        BadViews(r) == r.Views.k = "txt"
        BadClicks(r) == r.Clicks.k = "txt"
        date_errors ==
            IF file_key \in {"send_mails", "open_mails"} /\ CountRows(head, BadDate) > 0
            THEN << <<"Date Format Error", file_key>> >> ELSE <<>>
        email_errors ==
            IF file_key = "send_mails" /\ CountRows(head, BadSendEmail) > 0
            THEN << <<"Email Format Error", file_key>> >>
            ELSE IF file_key = "contacts" /\ CountRows(head, BadEmail) > 0
            THEN << <<"Email Format Error", file_key>> >>
            ELSE <<>>
        views_errors ==
            IF file_key = "open_mails" /\ CountRows(head, BadViews) > 0
            THEN << <<"Numeric Format Error", file_key>> >> ELSE <<>>
        clicks_errors ==
            IF file_key = "open_mails" /\ CountRows(head, BadClicks) > 0
            THEN << <<"Numeric Format Error", file_key>> >> ELSE <<>>
        errors == date_errors \o email_errors \o views_errors \o clicks_errors
    IN  [is_valid |-> errors = <<>>, errors |-> errors]

\* The pattern of Send rule 1, 'loopwork.co'
DomainPattern == <<"l", "o", "o", "p", "w", "o", "r", "k", ".", "c", "o">>

\* re.search(pat, s) for a pattern of plain characters and '.', which stands
\* for any one character: Series.str.contains takes its pattern as a regular
\* expression (regex=True is the default)
RegexContains(s, pat) ==
    \E i \in 1..(Len(s) - Len(pat) + 1) :
        \A k \in 1..Len(pat) : pat[k] = "." \/ s[i + k - 1] = pat[k]

\* df['Domain'].str.lower().str.contains('loopwork.co', na=False) of one row
DomainMatches(r) == ~IsNa(r.Domain) /\ RegexContains(Lower(r.Domain), DomainPattern)

\* 'Domain' in df.columns
HasDomainColumn(rows) == rows # <<>> /\ "Domain" \in DOMAIN rows[1]

\* Send rule 1 (lines 282-295): the rows whose Domain does not match
loopwork_filter(rows) ==
    LET Kept(r) == ~DomainMatches(r)
    IN  IF HasDomainColumn(rows) THEN SelectSeq(rows, Kept) ELSE rows

\* _apply_filtering_rules. A Domain column with every cell empty is a float
\* column: its .str raises, and the except of line 494 returns the frame as
\* it was given.
apply_filtering_rules(rows, file_key) ==
    LET Name(r) == r.recipient_name
        Domain(r) == r.Domain
        kept == loopwork_filter(rows)
        SendRow(r) ==
            [r EXCEPT !.sent_date = ToDatetimeFormat(@),
                      \* .str.strip(); on an all-empty column the accessor
                      \* raises and the code's except leaves the column alone
                      !.recipient_name = IF AllNa(rows, Name) THEN @ ELSE Strip(@)]
        OpenRow(r) ==
            [r EXCEPT !.recipient_name = clean_recipient_comma_split(@),
                      !.sent_date = convert_date_format(@),
                      !.Views = ToNumericFill0(@),
                      !.Clicks = ToNumericFill0(@)]
    IN  CASE file_key = "send_mails" ->
                IF HasDomainColumn(rows) /\ AllNa(rows, Domain) THEN rows
                ELSE [i \in 1..Len(kept) |-> SendRow(kept[i])]
          [] file_key = "open_mails" -> [i \in 1..Len(rows) |-> OpenRow(rows[i])]
          [] OTHER -> rows

\* The loop body skipping a file that is None without a message
ValidateFileSilentNone(file_key, file_obj) ==
    LET Reject(msgs) == [errors |-> msgs, stored |-> FALSE, df |-> <<>>]
        content == validate_data_content(file_obj.rows, file_key)
    IN  IF file_obj.isNone THEN Reject(<<>>)
        ELSE IF Len(file_obj.rows) = 0 THEN Reject(<< <<"Empty File", file_key>> >>)
        ELSE IF missing_columns(file_key, file_obj.cols) # <<>>
            THEN Reject(<< <<"Missing Columns", file_key>>,
                           <<"Available Columns in the uploaded sheet", file_key>> >>)
        ELSE IF missing_required(file_key, file_obj.cols) # {}
            THEN Reject(<< <<"Missing Required Columns", file_key>> >>)
        ELSE IF ~content.is_valid THEN Reject(content.errors)
        ELSE [errors |-> <<>>, stored |-> TRUE,
              df |-> apply_filtering_rules(file_obj.rows, file_key)]

\* The body of the loop of sheets_validator for one file: the messages it adds
\* and the frame it stores in mapped_dataframes, if any
ValidateFile(file_key, file_obj) ==
    LET Reject(msgs) == [errors |-> msgs, stored |-> FALSE, df |-> <<>>]
        content == validate_data_content(file_obj.rows, file_key)
    IN  IF file_obj.isNone THEN Reject(<< <<"Missing File", file_key>> >>)
        ELSE IF Len(file_obj.rows) = 0 THEN Reject(<< <<"Empty File", file_key>> >>)
        ELSE IF missing_columns(file_key, file_obj.cols) # <<>>
            THEN Reject(<< <<"Missing Columns", file_key>>,
                           <<"Available Columns in the uploaded sheet", file_key>> >>)
        ELSE IF missing_required(file_key, file_obj.cols) # {}
            THEN Reject(<< <<"Missing Required Columns", file_key>> >>)
        ELSE IF ~content.is_valid THEN Reject(content.errors)
        ELSE [errors |-> <<>>, stored |-> TRUE,
              df |-> apply_filtering_rules(file_obj.rows, file_key)]

\* sheets_validator(files) = (is_valid, error_messages, mapped_dataframes)
sheets_validator(fs) ==
    LET one == [k \in {"send_mails", "open_mails", "contacts"} |-> ValidateFile(k, fs[k])]
        error_messages == one["send_mails"].errors \o one["open_mails"].errors
                            \o one["contacts"].errors
        validated_files == {k \in DOMAIN one : one[k].stored}
    IN  [is_valid |-> error_messages = <<>>
                        /\ \A i \in 1..Len(Roles) : Roles[i] \in validated_files,
         error_messages |-> error_messages,
         mapped_dataframes |-> [k \in DOMAIN one |-> one[k].df],
         validated_files |-> validated_files]

----------------------------------------------------------------------------
(* _clean_data *)

\* dropna on recipient_name only
DropNaNameOnly(rows, file_type) ==
    LET Keep(r) ==
            CASE file_type \in {"send", "open"} -> ~IsNa(r.recipient_name)
              [] file_type = "contacts" -> ~IsNa(r.Email)
              [] OTHER -> TRUE
    IN  SelectSeq(rows, Keep)

\* df.dropna(subset=[...]) for the role; rows keep their index labels
DropNa(rows, file_type) ==
    LET Keep(r) ==
            CASE file_type \in {"send", "open"} ->
                    ~IsNa(r.recipient_name) /\ ~IsNaDate(r.sent_date)
              [] file_type = "contacts" -> ~IsNa(r.Email)
              [] OTHER -> TRUE
    IN  SelectSeq(rows, Keep)

\* Lines 629-655 on one row: the date, the trimmed identifiers, the numbers
CleanRow(r, file_type) ==
    CASE file_type = "send" -> [r EXCEPT !.sent_date = ToDatetimeFormat(@),
                                         !.recipient_name = Strip(@)]
      [] file_type = "open" -> [r EXCEPT !.sent_date = ToDatetimeFormat(@),
                                         !.recipient_name = Strip(@),
                                         !.Views = ToNumericFill0(@),
                                         !.Clicks = ToNumericFill0(@)]
      [] OTHER -> [r EXCEPT !.Company_URL = Strip(Lower(@)),
                            !.Email = Strip(@)]

\* Lines 629-670 when no .str accessor raises
CleanedRows(rows, file_type) ==
    DropNa([i \in 1..Len(rows) |-> CleanRow(rows[i], file_type)], file_type)

\* _clean_data(df, file_type): the cleaned table, or raised = TRUE when a .str
\* accessor is applied to a column that holds no text at all
clean_data(rows, file_type) ==
    LET Name(r) == r.recipient_name
        Url(r) == r.Company_URL
        Mail(r) == r.Email
        raised ==
            CASE file_type \in {"send", "open"} -> AllNa(rows, Name)
              [] OTHER -> AllNa(rows, Url) \/ AllNa(rows, Mail)
    IN  IF raised THEN [raised |-> TRUE, rows |-> <<>>]
        ELSE [raised |-> FALSE, rows |-> CleanedRows(rows, file_type)]

----------------------------------------------------------------------------
(* The Send-Open join: _phase1_matching, _phase2_matching *)

\* Phase 1 written with range(11): increment +11 is never tried
Phase1LastShort == 11 - 1

\* range(12)
Phase1Last == 11

\* Phase 2 written with range(11, 61): increment +11 is tried again
Phase2FirstEarly == 12 - 1

\* range(12, 61)
Phase2First == 12

\* Phase 2 written with range(12, 62): increment +61 is tried as well
Phase2LastLate == 60 + 1

Phase2Last == 60

\* failure_reason values; n is the {increment} of the f-string, and the
\* number in the name of the reasons that have none
no_open_records_for_email == [tag |-> "no_open_records_for_email", n |-> 0]

no_match_within_11_seconds == [tag |-> "no_match_within_seconds", n |-> 11]

no_match_within_60_seconds == [tag |-> "no_match_within_seconds", n |-> 60]

multiple_matches_at_plus(increment) ==
    [tag |-> "multiple_matches_at_plus_seconds", n |-> increment]

multiple_matches_at_plus_phase2(increment) ==
    [tag |-> "multiple_matches_at_plus_seconds_phase2", n |-> increment]

not_found_in_contacts == [tag |-> "Send email not found in contacts", n |-> 0]

\* open_by_email[email]: the Open rows of one recipient_name, in table order
OpensOfEmail(open_rows, email) ==
    LET Same(o) == o.recipient_name = email IN SelectSeq(open_rows, Same)

\* email_opens[email_opens['sent_date'] == search_datetime]
Matches(email_opens, search_datetime) ==
    LET At(o) == o.sent_date = search_datetime IN SelectSeq(email_opens, At)

\* The for-loop trying the increments from the largest down
RECURSIVE ScanIncrementsDown(_, _, _, _)
ScanIncrementsDown(email_opens, base_datetime, increment, last) ==
    IF increment > last THEN [kind |-> "none", increment |-> last, matches |-> <<>>]
    ELSE LET matches == Matches(email_opens, AddSeconds(base_datetime, last))
         IN  IF Len(matches) = 1
                THEN [kind |-> "one", increment |-> last, matches |-> matches]
             ELSE IF Len(matches) > 1
                THEN [kind |-> "multiple", increment |-> last, matches |-> matches]
             ELSE ScanIncrementsDown(email_opens, base_datetime, increment, last - 1)

\* The for-loop over increments, from `increment` to `last`: it stops at the
\* first increment with one match ("one") or several ("multiple"), and falls
\* through ("none") when every increment has no match.
RECURSIVE ScanIncrements(_, _, _, _)
ScanIncrements(email_opens, base_datetime, increment, last) ==
    IF increment > last THEN [kind |-> "none", increment |-> last, matches |-> <<>>]
    ELSE LET matches == Matches(email_opens, AddSeconds(base_datetime, increment))
         IN  IF Len(matches) = 1
                THEN [kind |-> "one", increment |-> increment, matches |-> matches]
             ELSE IF Len(matches) > 1
                THEN [kind |-> "multiple", increment |-> increment, matches |-> matches]
             ELSE ScanIncrements(email_opens, base_datetime, increment + 1, last)

\* The increments Phase 1 tries, first to last
Phase1First == 0

\* {**send_record.to_dict(), 'failure_reason': ..., 'match_count': ...};
\* match_count = 0 stands for a dict without that key
FailedRecord(send_record, reason, count) ==
    [idx |-> send_record.idx, recipient_name |-> send_record.recipient_name,
     sent_date |-> send_record.sent_date,
     Recipient_Email |-> send_record.Recipient_Email,
     failure_reason |-> reason, match_count |-> count]

\* final_record: the Send fields plus the Open fields; open_idx records which
\* Open row was merged (matches.index[0]), which the code's dict does not keep
FinalRecord(send_record, matched_record) ==
    [idx |-> send_record.idx, recipient_name |-> send_record.recipient_name,
     sent_date |-> send_record.sent_date,
     Recipient_Email |-> send_record.Recipient_Email,
     Views |-> matched_record.Views, Clicks |-> matched_record.Clicks,
     open_idx |-> matched_record.idx]

\* The body of the Phase 1 loop reading only the Open rows no earlier Send
\* row was merged with
Phase1RecordConsuming(acc, send_record, open_rows) ==
    LET Free(o) == o.idx \notin acc.used_open_indices
        email_opens == OpensOfEmail(SelectSeq(open_rows, Free), send_record.recipient_name)
        scan == ScanIncrements(email_opens, send_record.sent_date, Phase1First, Phase1Last)
    IN  IF email_opens = <<>>
            THEN [acc EXCEPT !.failed_records =
                    Append(@, FailedRecord(send_record, no_open_records_for_email, 0))]
        ELSE IF scan.kind = "one"
            THEN [acc EXCEPT
                    !.used_open_indices = @ \cup {scan.matches[1].idx},
                    !.successful_matches = Append(@, FinalRecord(send_record, scan.matches[1]))]
        ELSE IF scan.kind = "multiple"
            THEN [acc EXCEPT !.failed_records =
                    Append(@, FailedRecord(send_record,
                                           multiple_matches_at_plus(scan.increment),
                                           Len(scan.matches)))]
        ELSE [acc EXCEPT !.failed_records =
                    Append(@, FailedRecord(send_record, no_match_within_11_seconds, 0))]

\* The body of the Phase 1 loop for one Send row
Phase1Record(acc, send_record, open_rows) ==
    LET email_opens == OpensOfEmail(open_rows, send_record.recipient_name)
        scan == ScanIncrements(email_opens, send_record.sent_date, Phase1First, Phase1Last)
    IN  IF email_opens = <<>>
            THEN [acc EXCEPT !.failed_records =
                    Append(@, FailedRecord(send_record, no_open_records_for_email, 0))]
        ELSE IF scan.kind = "one"
            THEN [acc EXCEPT
                    !.used_open_indices = @ \cup {scan.matches[1].idx},
                    !.successful_matches = Append(@, FinalRecord(send_record, scan.matches[1]))]
        ELSE IF scan.kind = "multiple"
            THEN [acc EXCEPT !.failed_records =
                    Append(@, FailedRecord(send_record,
                                           multiple_matches_at_plus(scan.increment),
                                           Len(scan.matches)))]
        ELSE [acc EXCEPT !.failed_records =
                    Append(@, FailedRecord(send_record, no_match_within_11_seconds, 0))]

RECURSIVE Phase1Loop(_, _, _, _)
Phase1Loop(acc, send_rows, i, open_rows) ==
    IF i > Len(send_rows) THEN acc
    ELSE Phase1Loop(Phase1Record(acc, send_rows[i], open_rows), send_rows, i + 1, open_rows)

\* _phase1_matching(send_df, open_df)
phase1_matching(send_rows, open_rows) ==
    Phase1Loop([successful_matches |-> <<>>, failed_records |-> <<>>,
                used_open_indices |-> {}], send_rows, 1, open_rows)

\* unused_open_df taken to be the whole Open table
UnusedOpenAll(open_rows, used_open_indices) == open_rows

\* open_df[~open_df.index.isin(used_open_indices)]
UnusedOpen(open_rows, used_open_indices) ==
    LET Unused(o) == o.idx \notin used_open_indices IN SelectSeq(open_rows, Unused)

\* dict.pop(key, None) for each key of the set
PopKeys(record, keys) == [k \in (DOMAIN record) \ keys |-> record[k]]

\* The Phase 2 final_record without the two pops of the failure fields
Phase2FinalRecordNoPop(failed_record, matched_record) ==
    [Views |-> matched_record.Views, Clicks |-> matched_record.Clicks,
     open_idx |-> matched_record.idx] @@ failed_record

\* Lines 875-884: final_record = failed_record.copy(), the pops of
\* failure_reason and match_count, then the Open fields; open_idx as in
\* FinalRecord
Phase2FinalRecord(failed_record, matched_record) ==
    [Views |-> matched_record.Views, Clicks |-> matched_record.Clicks,
     open_idx |-> matched_record.idx]
        @@ PopKeys(failed_record, {"failure_reason", "match_count"})

\* The body of the Phase 2 loop without the skip of the e-mails that have no
\* unused Open row
Phase2RecordNoSkip(acc, failed_record, unused_open_rows) ==
    LET email_opens == OpensOfEmail(unused_open_rows, failed_record.recipient_name)
        scan == ScanIncrements(email_opens, failed_record.sent_date, Phase2First, Phase2Last)
    IN  IF scan.kind = "one"
            THEN [acc EXCEPT !.phase2_successful =
                    Append(@, Phase2FinalRecord(failed_record, scan.matches[1]))]
        ELSE IF scan.kind = "multiple"
            THEN [acc EXCEPT !.final_failed =
                    Append(@, [failed_record EXCEPT
                        !.failure_reason = multiple_matches_at_plus_phase2(scan.increment),
                        !.match_count = Len(scan.matches)])]
        ELSE [acc EXCEPT !.final_failed =
                    Append(@, [failed_record EXCEPT
                        !.failure_reason = no_match_within_60_seconds])]

\* The body of the Phase 2 loop for one failed record
Phase2Record(acc, failed_record, unused_open_rows) ==
    LET email_opens == OpensOfEmail(unused_open_rows, failed_record.recipient_name)
        scan == ScanIncrements(email_opens, failed_record.sent_date, Phase2First, Phase2Last)
    IN  IF email_opens = <<>>
            THEN [acc EXCEPT !.final_failed = Append(@, failed_record)]
        ELSE IF scan.kind = "one"
            THEN [acc EXCEPT !.phase2_successful =
                    Append(@, Phase2FinalRecord(failed_record, scan.matches[1]))]
        ELSE IF scan.kind = "multiple"
            THEN [acc EXCEPT !.final_failed =
                    Append(@, [failed_record EXCEPT
                        !.failure_reason = multiple_matches_at_plus_phase2(scan.increment),
                        !.match_count = Len(scan.matches)])]
        ELSE [acc EXCEPT !.final_failed =
                    Append(@, [failed_record EXCEPT
                        !.failure_reason = no_match_within_60_seconds])]

RECURSIVE Phase2Loop(_, _, _, _)
Phase2Loop(acc, failed_records, i, unused_open_rows) ==
    IF i > Len(failed_records) THEN acc
    ELSE Phase2Loop(Phase2Record(acc, failed_records[i], unused_open_rows),
                    failed_records, i + 1, unused_open_rows)

\* _phase2_matching(failed_records, open_df, used_open_indices)
phase2_matching(failed_records, open_rows, used_open_indices) ==
    LET unused_open_df == UnusedOpen(open_rows, used_open_indices)
    IN  IF Len(unused_open_df) = 0
            THEN [phase2_successful |-> <<>>, final_failed |-> failed_records]
        ELSE Phase2Loop([phase2_successful |-> <<>>, final_failed |-> <<>>],
                        failed_records, 1, unused_open_df)

\* all_successful overwritten by the Phase 2 list instead of extended
AllSuccessfulPhase2Only(phase1_successful, phase2_successful) ==
    phase2_successful

\* all_successful = phase1_successful + phase2_successful
AllSuccessful(phase1_successful, phase2_successful) ==
    phase1_successful \o phase2_successful

\* _incremental_datetime_join after Phase 1: Phase 2 on the failed records,
\* when there are any, and the two result tables
incremental_datetime_join(p1, open_rows) ==
    LET p2 == IF Len(p1.failed_records) > 0
                THEN phase2_matching(p1.failed_records, open_rows, p1.used_open_indices)
                ELSE [phase2_successful |-> <<>>, final_failed |-> p1.failed_records]
    IN  [successful |-> AllSuccessful(p1.successful_matches, p2.phase2_successful),
         failed |-> p2.final_failed]

----------------------------------------------------------------------------
(* The contacts join: _join_with_contacts, _add_company_url_ids *)

\* A returned table, or None
NoneTable == [isNone |-> TRUE, rows |-> <<>>]

Table(rows) == [isNone |-> FALSE, rows |-> rows]

\* contacts_lookup: the e-mails that have an entry
LookupKeys(contacts_rows) ==
    {contacts_rows[i].Email : i \in {j \in 1..Len(contacts_rows) : ~IsNa(contacts_rows[j].Email)}}

\* A lookup that every later row of the same Email overwrites
contacts_lookup_last(contacts_rows, email) ==
    LET last == CHOOSE i \in 1..Len(contacts_rows) :
                    /\ contacts_rows[i].Email = email
                    /\ \A j \in (i + 1)..Len(contacts_rows) : contacts_rows[j].Email # email
    IN  contacts_rows[last]

\* contacts_lookup[email]: the first row of the directory with that Email
contacts_lookup(contacts_rows, email) ==
    LET first == CHOOSE i \in 1..Len(contacts_rows) :
                    /\ contacts_rows[i].Email = email
                    /\ \A j \in 1..(i - 1) : contacts_rows[j].Email # email
    IN  contacts_rows[first]

\* df['Company URL'].dropna().unique(): the distinct values, first seen first
RECURSIVE UniqueUrls(_, _, _)
UniqueUrls(rows, i, seen) ==
    IF i > Len(rows) THEN seen
    ELSE LET url == rows[i].Company_URL
             Is(u) == u = url
         IN  IF IsNa(url) \/ SelectSeq(seen, Is) # <<>>
                THEN UniqueUrls(rows, i + 1, seen)
             ELSE UniqueUrls(rows, i + 1, Append(seen, url))

\* IDs numbered by row instead of by distinct Company URL
add_company_url_ids_by_row(rows) ==
    [i \in 1..Len(rows) |->
        [rows[i] EXCEPT !.Company_URL_ID = IF IsNa(rows[i].Company_URL) THEN 0 ELSE i]]

\* _add_company_url_ids: Company URL ID = 1 + position among the distinct
\* values; 0 stands for the empty ID of a row without Company URL
add_company_url_ids(rows) ==
    LET unique_company_urls == UniqueUrls(rows, 1, <<>>)
        IdOf(url) == IF IsNa(url) THEN 0
                     ELSE CHOOSE k \in 1..Len(unique_company_urls) :
                            unique_company_urls[k] = url
    IN  [i \in 1..Len(rows) |->
            [rows[i] EXCEPT !.Company_URL_ID = IdOf(rows[i].Company_URL)]]

\* merged_record: the Send-Open record plus every contact field
MergedRecord(send_record, contact_record) ==
    [idx |-> send_record.idx, recipient_name |-> send_record.recipient_name,
     sent_date |-> send_record.sent_date,
     Recipient_Email |-> send_record.Recipient_Email,
     Views |-> send_record.Views, Clicks |-> send_record.Clicks,
     open_idx |-> send_record.open_idx,
     Email |-> contact_record.Email, Company_URL |-> contact_record.Company_URL,
     Company_URL_ID |-> 0]

\* failed_record of the contacts join: the Send-Open record plus the reason
ContactFailedRecord(send_record) ==
    [idx |-> send_record.idx, recipient_name |-> send_record.recipient_name,
     sent_date |-> send_record.sent_date,
     Recipient_Email |-> send_record.Recipient_Email,
     Views |-> send_record.Views, Clicks |-> send_record.Clicks,
     failure_reason |-> not_found_in_contacts, match_count |-> 0]

\* The body of the loop over the Send-Open records
JoinRecord(acc, send_record, contacts_rows) ==
    LET recipient_email == send_record.Recipient_Email
    IN  IF ~IsNa(recipient_email) /\ recipient_email \in LookupKeys(contacts_rows)
            THEN [acc EXCEPT !.successful_records =
                    Append(@, MergedRecord(send_record,
                                           contacts_lookup(contacts_rows, recipient_email)))]
        ELSE [acc EXCEPT !.failed_records = Append(@, ContactFailedRecord(send_record))]

RECURSIVE JoinLoop(_, _, _, _)
JoinLoop(acc, send_open_rows, i, contacts_rows) ==
    IF i > Len(send_open_rows) THEN acc
    ELSE JoinLoop(JoinRecord(acc, send_open_rows[i], contacts_rows),
                  send_open_rows, i + 1, contacts_rows)

\* What _join_with_contacts returns when no record matched: a 3-tuple
NoContactsMatched ==
    [len |-> 3, successful |-> NoneTable, failed |-> NoneTable,
     errors |-> << <<"No records matched with contacts sheet", "contacts">> >>]

\* _join_with_contacts(send_open_df, contacts_df): a 2-tuple of tables, or the
\* 3-tuple (None, None, [message]) when no record matched
join_with_contacts(send_open_rows, contacts_rows) ==
    LET acc == JoinLoop([successful_records |-> <<>>, failed_records |-> <<>>],
                        send_open_rows, 1, contacts_rows)
        successful_df == add_company_url_ids(acc.successful_records)
    IN  IF Len(successful_df) = 0 THEN NoContactsMatched
        ELSE [len |-> 2, successful |-> Table(successful_df),
              failed |-> Table(acc.failed_records), errors |-> <<>>]

----------------------------------------------------------------------------
(* process_files *)

\* A row of pd.DataFrame(all_failed) made from a Send-Open failure: the columns
\* that only the contacts failures have are empty
FailedRowOfSendOpen(r) ==
    [idx |-> r.idx, recipient_name |-> r.recipient_name, sent_date |-> r.sent_date,
     Recipient_Email |-> r.Recipient_Email, Views |-> NaNum, Clicks |-> NaNum,
     failure_reason |-> r.failure_reason, match_count |-> r.match_count]

\* all_failed without the extend of the contacts failures
AllFailedSendOpenOnly(send_open_failed, contacts_failed) ==
    [i \in 1..Len(send_open_failed) |-> FailedRowOfSendOpen(send_open_failed[i])]

\* all_failed: the Send-Open failures, then the contacts failures
AllFailed(send_open_failed, contacts_failed) ==
    [i \in 1..Len(send_open_failed) |-> FailedRowOfSendOpen(send_open_failed[i])]
        \o contacts_failed

\* except Exception as e: return None, None, [Processing Error], 0
ProcessingError(e) ==
    [successful |-> NoneTable, failed |-> NoneTable,
     errors |-> << <<"Processing Error", e>> >>, count |-> 0]

\* return None, None, error_messages, 0
ValidationFailed(error_messages) ==
    [successful |-> NoneTable, failed |-> NoneTable, errors |-> error_messages,
     count |-> 0]

\* process_files returning None instead of an empty failed table
FinishResultNoneWhenEmpty(so, cr, count) ==
    IF cr.len = 3
        THEN ProcessingError("can only concatenate tuple (not list) to tuple")
    ELSE [successful |-> cr.successful,
          failed |-> IF Len(so.failed) + Len(cr.failed.rows) = 0 THEN NoneTable
                     ELSE Table(so.failed \o cr.failed.rows),
          errors |-> <<>>, count |-> count]

\* Lines 546-594. For the 3-tuple of _join_with_contacts the code evaluates
\* contacts_result + [original_send_count], a tuple plus a list, which raises
\* TypeError, and the except clause of process_files answers.
FinishResult(so, cr, count) ==
    IF cr.len = 3
        THEN ProcessingError("can only concatenate tuple (not list) to tuple")
    ELSE [successful |-> cr.successful,
          failed |-> Table(AllFailed(so.failed, cr.failed.rows)),
          errors |-> <<>>, count |-> count]

\* Lines 574-591 saving the failed records before the answer of the contacts
\* join is looked at
SaveOutputsBeforeCheck(so, cr) ==
    IF cr.len = 3
        THEN IF Len(so.failed) > 0 THEN {"failed_records"} ELSE {}
    ELSE (IF Len(cr.successful.rows) > 0 THEN {"successful_joins"} ELSE {})
            \cup (IF Len(AllFailed(so.failed, cr.failed.rows)) > 0
                    THEN {"failed_records"} ELSE {})

\* Lines 574-591: the files written to outputs/, successful_joins_<timestamp>.csv
\* when the successful table has rows and failed_records_<timestamp>.csv when
\* the failed table has; nothing when line 549 raised
SaveOutputs(so, cr) ==
    IF cr.len = 3 THEN {}
    ELSE (IF Len(cr.successful.rows) > 0 THEN {"successful_joins"} ELSE {})
            \cup (IF Len(AllFailed(so.failed, cr.failed.rows)) > 0
                    THEN {"failed_records"} ELSE {})

\* Values of the variables a step has not set yet
NoValidation == [is_valid |-> FALSE, error_messages |-> <<>>,
                 mapped_dataframes |-> <<>>, validated_files |-> {}]

NoPhase1 == [successful_matches |-> <<>>, failed_records |-> <<>>,
             used_open_indices |-> {}]

NoSendOpen == [successful |-> <<>>, failed |-> <<>>]

NoContactsResult == [len |-> 0, successful |-> NoneTable, failed |-> NoneTable,
                     errors |-> <<>>]

NoResult == [successful |-> NoneTable, failed |-> NoneTable, errors |-> <<>>,
             count |-> 0]

NoCombined == [called |-> FALSE]

\* Step 1 (lines 510-526): sheets_validator, the early return, the working
\* tables and original_send_count
Validate ==
    /\ pc = "start"
    /\ LET v == sheets_validator(files)
       IN  /\ validation' = v
           /\ IF ~v.is_valid
                THEN /\ result' = ValidationFailed(v.error_messages)
                     /\ pc' = "done"
                     /\ UNCHANGED <<send_df, open_df, contacts_df, original_send_count>>
                ELSE /\ send_df' = v.mapped_dataframes["send_mails"]
                     /\ open_df' = v.mapped_dataframes["open_mails"]
                     /\ contacts_df' = v.mapped_dataframes["contacts"]
                     /\ original_send_count' = Len(v.mapped_dataframes["send_mails"])
                     /\ pc' = "validated"
                     /\ UNCHANGED result
    /\ UNCHANGED <<files, phase1, send_open, contacts_result>>
    /\ UNCHANGED <<dashboard, outputs, combined>>

\* Lines 530-533: the three _clean_data calls
Clean ==
    /\ pc = "validated"
    /\ LET s == clean_data(send_df, "send")
           o == clean_data(open_df, "open")
           c == clean_data(contacts_df, "contacts")
       IN  IF s.raised \/ o.raised \/ c.raised
            THEN /\ result' = ProcessingError("Can only use .str accessor with string values")
                 /\ pc' = "done"
                 /\ UNCHANGED <<send_df, open_df, contacts_df>>
            ELSE /\ send_df' = s.rows
                 /\ open_df' = o.rows
                 /\ contacts_df' = c.rows
                 /\ pc' = "cleaned"
                 /\ UNCHANGED result
    /\ UNCHANGED <<files, validation, original_send_count, phase1, send_open,
                   contacts_result>>
    /\ UNCHANGED <<dashboard, outputs, combined>>

\* _clean_data applied to the tables _clean_data returned. Their text
\* columns are object columns (results of .str.strip()), on which the .str
\* accessor works even when every cell left is empty.
CleanAgain ==
    /\ pc = "cleaned"
    /\ send_df' = CleanedRows(send_df, "send")
    /\ open_df' = CleanedRows(open_df, "open")
    /\ contacts_df' = CleanedRows(contacts_df, "contacts")
    /\ pc' = "recleaned"
    /\ UNCHANGED <<files, validation, original_send_count, phase1, send_open,
                   contacts_result, result>>
    /\ UNCHANGED <<dashboard, outputs, combined>>

\* _incremental_datetime_join, line 694: Phase 1
Phase1 ==
    /\ pc = "cleaned"
    /\ phase1' = phase1_matching(send_df, open_df)
    /\ pc' = "phase1"
    /\ UNCHANGED <<files, validation, original_send_count, send_df, open_df,
                   contacts_df, send_open, contacts_result, result>>
    /\ UNCHANGED <<dashboard, outputs, combined>>

\* _incremental_datetime_join, lines 702-733: Phase 2 and the result tables
Phase2 ==
    /\ pc = "phase1"
    /\ send_open' = incremental_datetime_join(phase1, open_df)
    /\ pc' = "joined"
    /\ UNCHANGED <<files, validation, original_send_count, send_df, open_df,
                   contacts_df, phase1, contacts_result, result>>
    /\ UNCHANGED <<dashboard, outputs, combined>>

\* Line 544: the contacts join
JoinContacts ==
    /\ pc = "joined"
    /\ contacts_result' = join_with_contacts(send_open.successful, contacts_df)
    /\ pc' = "contacts"
    /\ UNCHANGED <<files, validation, original_send_count, send_df, open_df,
                   contacts_df, phase1, send_open, result>>
    /\ UNCHANGED <<dashboard, outputs, combined>>

\* Lines 546-598: the returned 4-tuple
Finish ==
    /\ pc = "contacts"
    /\ result' = FinishResult(send_open, contacts_result, original_send_count)
    /\ outputs' = SaveOutputs(send_open, contacts_result)
    /\ pc' = "done"
    /\ UNCHANGED <<files, validation, original_send_count, send_df, open_df,
                   contacts_df, phase1, send_open, contacts_result>>
    /\ UNCHANGED <<dashboard, combined>>

----------------------------------------------------------------------------
(* The dashboard (src/app.py): high-engagement accounts *)

NoDashboard ==
    [counted |-> FALSE, high_engagement_companies |-> {}, high_engagement_count |-> 0,
     shown |-> FALSE, company_engagement |-> <<>>]

\* The characters of the model's texts in code-point order
Alphabet == <<" ", ",", "@", "A", "B", "U", "a", "b", "c", "u", "v">>

CharRank(c) == CHOOSE i \in 1..Len(Alphabet) : Alphabet[i] = c

\* s < t for two texts, as sorting compares them
RECURSIVE TextLess(_, _)
TextLess(s, t) ==
    IF t = <<>> THEN FALSE
    ELSE IF s = <<>> THEN TRUE
    ELSE IF Head(s) = Head(t) THEN TextLess(Tail(s), Tail(t))
    ELSE CharRank(Head(s)) < CharRank(Head(t))

\* The keys of data.groupby('Company URL'): the distinct values, null excluded,
\* in sorted order
RECURSIVE SortedKeys(_)
SortedKeys(keys) ==
    IF keys = {} THEN <<>>
    ELSE LET least == CHOOSE k \in keys : \A other \in keys \ {k} : TextLess(k, other)
         IN  <<least>> \o SortedKeys(keys \ {least})

GroupKeys(data) ==
    SortedKeys({data[i].Company_URL : i \in {j \in 1..Len(data) : ~IsNa(data[j].Company_URL)}})

\* The rows of one group
GroupRows(data, company_url) ==
    LET In(r) == r.Company_URL = company_url IN SelectSeq(data, In)

\* 'recipient_name': 'count' counting the distinct names (nunique)
TotalEmailsUnique(rows) ==
    Cardinality({rows[i].recipient_name : i \in {j \in 1..Len(rows) : ~IsNa(rows[j].recipient_name)}})

\* 'recipient_name': 'count': the rows of the group with a recipient_name
TotalEmails(rows) ==
    Cardinality({i \in 1..Len(rows) : ~IsNa(rows[i].recipient_name)})

\* The column of a table as the sequence of its cells
Column(rows, Col(_)) == [i \in 1..Len(rows) |-> Col(rows[i])]

\* lambda x: x.fillna(0).sum()
RECURSIVE SumFillna0(_)
SumFillna0(values) ==
    IF values = <<>> THEN 0
    ELSE (IF Head(values).k = "num" THEN Head(values).n ELSE 0) + SumFillna0(Tail(values))

\* The sum of a column without null cells
RECURSIVE SumAll(_)
SumAll(values) == IF values = <<>> THEN 0 ELSE Head(values).n + SumAll(Tail(values))

\* 'sum': the sum of the values that are not null
Sum(values) ==
    LET NotNull(v) == v.k = "num" IN SumAll(SelectSeq(values, NotNull))

\* Total Views >= 2 x Total Emails
HighEngagementAtLeast(total_views, total_emails) == total_views >= 2 * total_emails

\* Total Views > 2 x Total Emails (app.py lines 1556 and 1667)
HighEngagement(total_views, total_emails) == total_views > 2 * total_emails

\* calculate_high_engagement_accounts: the companies kept by the filter of
\* lines 1555-1557
high_engagement_companies(data) ==
    LET keys == GroupKeys(data)
        Views(r) == r.Views
    IN  {keys[i] : i \in {j \in 1..Len(keys) :
            HighEngagement(SumFillna0(Column(GroupRows(data, keys[j]), Views)),
                           TotalEmails(GroupRows(data, keys[j])))}}

calculate_high_engagement_accounts(data) == Cardinality(high_engagement_companies(data))

\* (Total Views / Total Emails * 100).round(1), in tenths of a percent
EngagementRate(total_views, total_emails) ==
    (2000 * total_views + total_emails) \div (2 * total_emails)

\* sort_values('Engagement Rate', ascending=False): rows of equal rate keep
\* their order
RECURSIVE SortByRate(_)
SortByRate(table) ==
    IF table = <<>> THEN <<>>
    ELSE LET best == CHOOSE i \in 1..Len(table) :
                        /\ \A j \in 1..Len(table) :
                                table[j].Engagement_Rate <= table[i].Engagement_Rate
                        /\ \A j \in 1..(i - 1) :
                                table[j].Engagement_Rate < table[i].Engagement_Rate
             Rest(k) == IF k < best THEN table[k] ELSE table[k + 1]
         IN  <<table[best]>> \o SortByRate([k \in 1..(Len(table) - 1) |-> Rest(k)])

\* show_engagement_table: the company_engagement table it displays, empty
\* when it returns at once
show_engagement_table(data) ==
    LET keys == GroupKeys(data)
        Views(r) == r.Views
        Clicks(r) == r.Clicks
        Row(company_url) ==
            LET rows == GroupRows(data, company_url)
                total_emails == TotalEmails(rows)
                total_views == Sum(Column(rows, Views))
            IN  [Company_URL |-> company_url, Total_Emails |-> total_emails,
                 Total_Views |-> total_views, Total_Clicks |-> Sum(Column(rows, Clicks)),
                 Engagement_Rate |-> EngagementRate(total_views, total_emails),
                 High_Engagement |-> HighEngagement(total_views, total_emails)]
    IN  IF Len(data) = 0 THEN <<>>
        ELSE SortByRate([i \in 1..Len(keys) |-> Row(keys[i])])

\* show_dashboard, line 1382: the high-engagement count of the data shown
CalculateHighEngagement ==
    /\ pc = "done"
    /\ ~result.successful.isNone
    /\ ~dashboard.counted
    /\ dashboard' = [dashboard EXCEPT
            !.counted = TRUE,
            !.high_engagement_companies = high_engagement_companies(result.successful.rows),
            !.high_engagement_count = calculate_high_engagement_accounts(result.successful.rows)]
    /\ UNCHANGED <<files, pc, validation, original_send_count, send_df, open_df,
                   contacts_df, phase1, send_open, contacts_result, result>>
    /\ UNCHANGED <<outputs, combined>>

\* show_dashboard, line 1281: the engagement table of the data shown
ShowEngagementTable ==
    /\ pc = "done"
    /\ ~result.successful.isNone
    /\ ~dashboard.shown
    /\ dashboard' = [dashboard EXCEPT
            !.shown = TRUE,
            !.company_engagement = show_engagement_table(result.successful.rows)]
    /\ UNCHANGED <<files, pc, validation, original_send_count, send_df, open_df,
                   contacts_df, phase1, send_open, contacts_result, result>>
    /\ UNCHANGED <<outputs, combined>>

----------------------------------------------------------------------------
(* Inputs and specifications *)

\* Bounds on the number of rows of the uploaded files (Spec) and of the tables
\* handed to the Send-Open join (SpecJoin)
MaxSend == 3

MaxOpen == 1

MaxContacts == 1

MaxJoinSend == 2

MaxJoinOpen == 3

SeqsUpTo(S, n) == UNION {[1..k -> S] : k \in 0..n}

\* read_csv numbers the rows of a file 0, 1, 2, ...
Indexed(rows) == [i \in 1..Len(rows) |-> [idx |-> i - 1] @@ rows[i]]

Frame(cols, rows) == [isNone |-> FALSE, cols |-> cols, rows |-> rows]

NoneFile == [isNone |-> TRUE, cols |-> {}, rows |-> <<>>]

SendCols == {"recipient_name", "sent_date", "Recipient Email"}

OpenCols == {"recipient_name", "sent_date", "Views", "Clicks", "Last Opened"}

ContactsCols == {"Email", "Company URL"}

\* The cells the uploaded files are drawn from: dates are written in the
\* documented DD/MM/YYYY HH:MM:SS format
SendCell(name, email) ==
    [recipient_name |-> name, sent_date |-> DateText(13, 7, 0), Recipient_Email |-> email]

SendCells ==
    {SendCell(<<"a">>, <<"a", "@">>), SendCell(<<"a">>, <<"A", "@">>),
     SendCell(<<"a">>, <<"a", "@", " ">>), SendCell(<<"b">>, <<"b", "@">>),
     SendCell(NaN, <<"a", "@">>)}

OpenCells ==
    [recipient_name : {<<"a">>},
     sent_date : {DateText(13, 7, 0), DateText(13, 7, 12)},
     Views : {Num(2)}, Clicks : {Num(1)}]

ContactCells ==
    [Email : {<<"a", "@">>, <<" ", "a", "@">>}, Company_URL : {<<"U">>}]

\* process_files is called with three uploaded files
Init ==
    /\ files \in {[send_mails |-> Frame(SendCols, Indexed(s)),
                   open_mails |-> Frame(OpenCols, Indexed(o)),
                   contacts |-> Frame(ContactsCols, Indexed(c))] :
                    s \in SeqsUpTo(SendCells, MaxSend),
                    o \in SeqsUpTo(OpenCells, MaxOpen),
                    c \in SeqsUpTo(ContactCells, MaxContacts)}
    /\ pc = "start"
    /\ validation = NoValidation
    /\ original_send_count = 0
    /\ send_df = <<>>
    /\ open_df = <<>>
    /\ contacts_df = <<>>
    /\ phase1 = NoPhase1
    /\ send_open = NoSendOpen
    /\ contacts_result = NoContactsResult
    /\ result = NoResult
    /\ dashboard = NoDashboard
    /\ outputs = {}
    /\ combined = NoCombined

Next == Validate \/ Clean \/ Phase1 \/ Phase2 \/ JoinContacts \/ Finish

Spec == Init /\ [][Next]_vars

\* The cleaned tables _incremental_datetime_join is given: Send rows of two
\* recipients sent at second 0 or 1, Open rows at second 1, 12 or 61, that is
\* at offsets +0, +1, +11, +12, +60 and +61 of a Send row
JoinSendCell(name, second) ==
    [recipient_name |-> name, sent_date |-> Timestamp(13, 7, second),
     Recipient_Email |-> name \o <<"@">>]

JoinSendCells ==
    {JoinSendCell(<<"a">>, 0), JoinSendCell(<<"a">>, 1), JoinSendCell(<<"b">>, 0)}

JoinOpenCells ==
    [recipient_name : {<<"a">>, <<"b">>},
     sent_date : {Timestamp(13, 7, 1), Timestamp(13, 7, 12), Timestamp(13, 7, 61)},
     Clicks : {Num(0)}]

\* Every Open row has its own Views value, 1 + its index label
WithViews(rows) == [i \in 1..Len(rows) |-> [Views |-> Num(i)] @@ rows[i]]

InitJoin ==
    /\ send_df \in {Indexed(s) : s \in SeqsUpTo(JoinSendCells, MaxJoinSend)}
    /\ open_df \in {WithViews(Indexed(o)) : o \in SeqsUpTo(JoinOpenCells, MaxJoinOpen)}
    /\ pc = "cleaned"
    /\ files = [send_mails |-> NoneFile, open_mails |-> NoneFile, contacts |-> NoneFile]
    /\ validation = NoValidation
    /\ original_send_count = Len(send_df)
    /\ contacts_df = <<>>
    /\ phase1 = NoPhase1
    /\ send_open = NoSendOpen
    /\ contacts_result = NoContactsResult
    /\ result = NoResult
    /\ dashboard = NoDashboard
    /\ outputs = {}
    /\ combined = NoCombined

NextJoin == Phase1 \/ Phase2

SpecJoin == InitJoin /\ [][NextJoin]_vars

\* The cleaned tables of SpecJoin followed to the end of process_files, with
\* a contact directory that knows recipient b only
PipelineContacts ==
    Indexed(<< [Email |-> <<"b", "@">>, Company_URL |-> <<"u">>] >>)

InitPipeline ==
    /\ send_df \in {Indexed(s) : s \in SeqsUpTo(JoinSendCells, MaxJoinSend)}
    /\ open_df \in {WithViews(Indexed(o)) : o \in SeqsUpTo(JoinOpenCells, MaxJoinOpen)}
    /\ pc = "cleaned"
    /\ files = [send_mails |-> NoneFile, open_mails |-> NoneFile, contacts |-> NoneFile]
    /\ validation = NoValidation
    /\ original_send_count = Len(send_df)
    /\ contacts_df = PipelineContacts
    /\ phase1 = NoPhase1
    /\ send_open = NoSendOpen
    /\ contacts_result = NoContactsResult
    /\ result = NoResult
    /\ dashboard = NoDashboard
    /\ outputs = {}
    /\ combined = NoCombined

NextPipeline == Phase1 \/ Phase2 \/ JoinContacts \/ Finish

SpecPipeline == InitPipeline /\ [][NextPipeline]_vars

\* The tables _join_with_contacts is given: Send-Open records of three
\* recipients and a cleaned directory in which an Email can come twice, with
\* different Company URLs or none
MaxJoined == 3

MaxDirectory == 2

JoinedCell(email) ==
    [recipient_name |-> <<"a">>, sent_date |-> Timestamp(13, 7, 0),
     Recipient_Email |-> email, Views |-> Num(1), Clicks |-> Num(0), open_idx |-> 0]

JoinedCells == {JoinedCell(<<"a", "@">>), JoinedCell(<<"b", "@">>), JoinedCell(<<"c", "@">>)}

DirectoryCells ==
    [Email : {<<"a", "@">>, <<"b", "@">>}, Company_URL : {<<"u">>, <<"v">>, NaN}]

InitContacts ==
    /\ send_open \in {[successful |-> Indexed(r), failed |-> <<>>] :
                        r \in SeqsUpTo(JoinedCells, MaxJoined)}
    /\ contacts_df \in {Indexed(c) : c \in SeqsUpTo(DirectoryCells, MaxDirectory)}
    /\ pc = "joined"
    /\ files = [send_mails |-> NoneFile, open_mails |-> NoneFile, contacts |-> NoneFile]
    /\ validation = NoValidation
    /\ original_send_count = Len(send_open.successful)
    /\ send_df = <<>>
    /\ open_df = <<>>
    /\ phase1 = NoPhase1
    /\ contacts_result = NoContactsResult
    /\ result = NoResult
    /\ dashboard = NoDashboard
    /\ outputs = {}
    /\ combined = NoCombined

NextContacts == JoinContacts \/ Finish

SpecContacts == InitContacts /\ [][NextContacts]_vars

\* The frames _clean_data is given when it is called on its own: names with
\* and without blanks, dates in the documented format, in another format,
\* unparseable or empty, numbers, texts and empty cells; up to MaxCleanSend
\* send rows, one open row and two contacts
MaxCleanSend == 2

CleanSendCell(name, date) ==
    [recipient_name |-> name, sent_date |-> date, Recipient_Email |-> <<"a", "@">>]

CleanSendCells ==
    {CleanSendCell(<<"a">>, DateText(13, 7, 0)),
     CleanSendCell(<<" ", "a", " ">>, InvalidDate),
     CleanSendCell(<<" ", "a", " ">>, DateText(3, 7, 0)),
     CleanSendCell(NaN, DateText(13, 7, 0)),
     CleanSendCell(<<"a">>, NaD),
     CleanSendCell(<<"a">>, MonthText(13, 7, 0))}

CleanOpenCell(name, date, views) ==
    [recipient_name |-> name, sent_date |-> date, Views |-> views, Clicks |-> Num(1)]

CleanOpenCells ==
    {CleanOpenCell(<<"a", " ">>, DateText(13, 7, 0), Num(2)),
     CleanOpenCell(<<"a">>, InvalidDate, Txt),
     CleanOpenCell(<<"a">>, DateText(13, 7, 0), NaNum),
     CleanOpenCell(NaN, DateText(13, 7, 0), Num(2))}

CleanContactCells ==
    {[Email |-> <<"a", "@">>, Company_URL |-> <<"U">>],
     [Email |-> <<" ", "a", "@", " ">>, Company_URL |-> NaN],
     [Email |-> NaN, Company_URL |-> <<" ", "U">>]}

InitClean ==
    /\ files \in {[send_mails |-> Frame(SendCols, Indexed(s)),
                   open_mails |-> Frame(OpenCols, Indexed(o)),
                   contacts |-> Frame(ContactsCols, Indexed(c))] :
                    s \in SeqsUpTo(CleanSendCells, MaxCleanSend),
                    o \in SeqsUpTo(CleanOpenCells, 1),
                    c \in SeqsUpTo(CleanContactCells, 2)}
    /\ send_df = files["send_mails"].rows
    /\ open_df = files["open_mails"].rows
    /\ contacts_df = files["contacts"].rows
    /\ pc = "validated"
    /\ validation = NoValidation
    /\ original_send_count = Len(send_df)
    /\ phase1 = NoPhase1
    /\ send_open = NoSendOpen
    /\ contacts_result = NoContactsResult
    /\ result = NoResult
    /\ dashboard = NoDashboard
    /\ outputs = {}
    /\ combined = NoCombined

NextClean == Clean \/ CleanAgain

SpecClean == InitClean /\ [][NextClean]_vars

\* The successful table the dashboard is given: records of two companies
\* with 2 or 3 Views, or none
MaxData == 5

DataCell(company_url, views) ==
    [recipient_name |-> <<"a">>, Company_URL |-> company_url, Views |-> views,
     Clicks |-> Num(1)]

DataCells ==
    {DataCell(<<"u">>, Num(2)), DataCell(<<"u">>, Num(3)), DataCell(<<"u">>, NaNum),
     DataCell(<<"v">>, Num(3)), DataCell(NaN, Num(3))}

InitEngagement ==
    /\ result \in {[successful |-> Table(Indexed(d)), failed |-> Table(<<>>),
                     errors |-> <<>>, count |-> Len(d)] :
                        d \in SeqsUpTo(DataCells, MaxData)}
    /\ pc = "done"
    /\ files = [send_mails |-> NoneFile, open_mails |-> NoneFile, contacts |-> NoneFile]
    /\ validation = NoValidation
    /\ original_send_count = result.count
    /\ send_df = <<>>
    /\ open_df = <<>>
    /\ contacts_df = <<>>
    /\ phase1 = NoPhase1
    /\ send_open = NoSendOpen
    /\ contacts_result = NoContactsResult
    /\ dashboard = NoDashboard
    /\ outputs = {}
    /\ combined = NoCombined

NextEngagement == CalculateHighEngagement \/ ShowEngagementTable

SpecEngagement == InitEngagement /\ [][NextEngagement]_vars

\* Tables for the scan of the increments: one recipient, Send rows at second
\* 0 or 1, Open rows at seconds 1, 5, 12, 20 and 60, so that a Send row has
\* Open rows at several increments of each window
MaxScanSend == 2

MaxScanOpen == 3

ScanSendCells == {JoinSendCell(<<"a">>, 0), JoinSendCell(<<"a">>, 1)}

ScanOpenCells ==
    [recipient_name : {<<"a">>},
     sent_date : {Timestamp(13, 7, 1), Timestamp(13, 7, 5), Timestamp(13, 7, 12),
                  Timestamp(13, 7, 20), Timestamp(13, 7, 60)},
     Clicks : {Num(0)}]

InitScan ==
    /\ send_df \in {Indexed(s) : s \in SeqsUpTo(ScanSendCells, MaxScanSend)}
    /\ open_df \in {WithViews(Indexed(o)) : o \in SeqsUpTo(ScanOpenCells, MaxScanOpen)}
    /\ pc = "cleaned"
    /\ files = [send_mails |-> NoneFile, open_mails |-> NoneFile, contacts |-> NoneFile]
    /\ validation = NoValidation
    /\ original_send_count = Len(send_df)
    /\ contacts_df = <<>>
    /\ phase1 = NoPhase1
    /\ send_open = NoSendOpen
    /\ contacts_result = NoContactsResult
    /\ result = NoResult
    /\ dashboard = NoDashboard
    /\ outputs = {}
    /\ combined = NoCombined

SpecScan == InitScan /\ [][NextJoin]_vars

\* The cleaned tables of the join with Open rows on both sides of the two
\* windows: a recipient sent at second 9 or 10, Open rows at seconds 9, 21,
\* 22, 70 and 71, that is at offsets -1, +11, +12, +60 and +61 of the Send
\* row of second 10 and +0, +12, +13, +61 and +62 of the one of second 9
MaxWindowSend == 1

MaxWindowOpen == 3

WindowSendCells == {JoinSendCell(<<"a">>, 9), JoinSendCell(<<"a">>, 10)}

WindowOpenCells ==
    [recipient_name : {<<"a">>},
     sent_date : {Timestamp(13, 7, 9), Timestamp(13, 7, 21), Timestamp(13, 7, 22),
                  Timestamp(13, 7, 70), Timestamp(13, 7, 71)},
     Clicks : {Num(0)}]

InitWindow ==
    /\ send_df \in {Indexed(s) : s \in SeqsUpTo(WindowSendCells, MaxWindowSend)}
    /\ open_df \in {WithViews(Indexed(o)) : o \in SeqsUpTo(WindowOpenCells, MaxWindowOpen)}
    /\ pc = "cleaned"
    /\ files = [send_mails |-> NoneFile, open_mails |-> NoneFile, contacts |-> NoneFile]
    /\ validation = NoValidation
    /\ original_send_count = Len(send_df)
    /\ contacts_df = <<>>
    /\ phase1 = NoPhase1
    /\ send_open = NoSendOpen
    /\ contacts_result = NoContactsResult
    /\ result = NoResult
    /\ dashboard = NoDashboard
    /\ outputs = {}
    /\ combined = NoCombined

SpecWindow == InitWindow /\ [][NextJoin]_vars

\* Uploaded files whose dates are written DD/MM/YYYY HH:MM:SS with a day
\* that can be read as a month (3, 7) and one that cannot (13)
MaxDateRows == 1

DateTexts == {DateText(d, m, 0) : d \in {3, 7, 13}, m \in {3, 7}}

DateSendCells ==
    [recipient_name : {<<"a">>}, sent_date : DateTexts, Recipient_Email : {<<"a", "@">>}]

DateOpenCells ==
    [recipient_name : {<<"a">>}, sent_date : DateTexts, Views : {Num(2)}, Clicks : {Num(1)}]

InitDates ==
    /\ files \in {[send_mails |-> Frame(SendCols, Indexed(s)),
                   open_mails |-> Frame(OpenCols, Indexed(o)),
                   contacts |-> Frame(ContactsCols,
                                      Indexed(<<[Email |-> <<"a", "@">>,
                                                 Company_URL |-> <<"U">>]>>))] :
                    s \in SeqsUpTo(DateSendCells, MaxDateRows),
                    o \in SeqsUpTo(DateOpenCells, MaxDateRows)}
    /\ pc = "start"
    /\ validation = NoValidation
    /\ original_send_count = 0
    /\ send_df = <<>>
    /\ open_df = <<>>
    /\ contacts_df = <<>>
    /\ phase1 = NoPhase1
    /\ send_open = NoSendOpen
    /\ contacts_result = NoContactsResult
    /\ result = NoResult
    /\ dashboard = NoDashboard
    /\ outputs = {}
    /\ combined = NoCombined

SpecDates == InitDates /\ [][Next]_vars

\* Send files with a Domain column, whose cells are 'loopwork.co', the same
\* text in capitals, a text with another character in place of the dot,
\* another domain or empty, and Send files without that column
MaxDomainSend == 2

DomainTexts ==
    {<<"l", "o", "o", "p", "w", "o", "r", "k", ".", "c", "o">>,
     <<"L", "o", "o", "p", "w", "o", "r", "k", ".", "C", "o">>,
     <<"l", "o", "o", "p", "w", "o", "r", "k", "x", "c", "o">>,
     <<"x", ".", "c", "o">>,
     NaN}

DomainSendCells ==
    [recipient_name : {<<"a">>}, sent_date : {DateText(13, 7, 0)},
     Recipient_Email : {<<"a", "@">>}, Domain : DomainTexts]

PlainSendCells ==
    [recipient_name : {<<"a">>}, sent_date : {DateText(13, 7, 0)},
     Recipient_Email : {<<"a", "@">>}]

InitDomain ==
    /\ files \in {[send_mails |-> s,
                   open_mails |-> Frame(OpenCols,
                        Indexed(<<[recipient_name |-> <<"a">>,
                                   sent_date |-> DateText(13, 7, 0),
                                   Views |-> Num(2), Clicks |-> Num(1)]>>)),
                   contacts |-> Frame(ContactsCols,
                        Indexed(<<[Email |-> <<"a", "@">>, Company_URL |-> <<"U">>]>>))] :
                    s \in {Frame(SendCols \cup {"Domain"}, Indexed(r)) :
                                r \in SeqsUpTo(DomainSendCells, MaxDomainSend)}
                          \cup {Frame(SendCols, Indexed(r)) :
                                r \in SeqsUpTo(PlainSendCells, MaxDomainSend)}}
    /\ pc = "start"
    /\ validation = NoValidation
    /\ original_send_count = 0
    /\ send_df = <<>>
    /\ open_df = <<>>
    /\ contacts_df = <<>>
    /\ phase1 = NoPhase1
    /\ send_open = NoSendOpen
    /\ contacts_result = NoContactsResult
    /\ result = NoResult
    /\ dashboard = NoDashboard
    /\ outputs = {}
    /\ combined = NoCombined

SpecDomain == InitDomain /\ [][Next]_vars

(* process_combined_files (src/src/combined_processor.py) and the calls
   file (src/src/calls_processor.py) *)

\* CallsProcessor.required_columns
required_calls_columns ==
    {"Assigned", "Call Disposition", "Date", "Company / Account", "Contact",
     "Call Duration (seconds)", "Email", "Full Comments"}

\* pd.to_datetime(value, errors='coerce') without a format
ToDatetimeGeneralCoerce(v) ==
    IF IsNaDate(v) THEN NaT
    ELSE IF ParsesGeneral(v) THEN ToDatetimeGeneral(v)
    ELSE NaT

\* process_calls_file(file_obj) = (is_valid, error_messages, dataframe):
\* validate_calls_file, then the Date and Call Duration columns converted
process_calls_file(file_obj) ==
    LET CallRow(r) == [r EXCEPT !.Date = ToDatetimeGeneralCoerce(@),
                                !.Call_Duration = ToNumericFill0(@)]
    IN  IF Len(file_obj.rows) = 0
            THEN [success |-> FALSE, errors |-> <<"Empty File">>, data |-> NoneTable]
        ELSE IF required_calls_columns \ file_obj.cols # {}
            THEN [success |-> FALSE,
                  errors |-> <<"Missing Required Columns", "Available Columns">>,
                  data |-> NoneTable]
        ELSE [success |-> TRUE, errors |-> <<>>,
              data |-> Table([i \in 1..Len(file_obj.rows) |-> CallRow(file_obj.rows[i])])]

\* Lines 81-141 of process_combined_files, after process_files returned
\* email_result (a 4-tuple on every path): the combined error list, the
\* calls file, email_success and the result of either branch. calls_success
\* is kept beside the returned values.
process_combined_files(email_result, calls_file) ==
    LET email_errors ==
            [i \in 1..Len(email_result.errors) |-> <<"Email", email_result.errors[i]>>]
        calls ==
            IF calls_file.isNone
                THEN [success |-> FALSE, errors |-> <<"Missing Calls Record CSV file">>,
                      data |-> NoneTable]
            ELSE process_calls_file(calls_file)
        calls_errors == [i \in 1..Len(calls.errors) |-> <<"Calls", calls.errors[i]>>]
        all_validation_errors == email_errors \o calls_errors
        email_success == ~email_result.successful.isNone /\ Len(all_validation_errors) = 0
    IN  IF email_success /\ calls.success
            THEN [called |-> TRUE, is_valid |-> TRUE, calls_success |-> calls.success,
                  email_data |-> email_result.successful,
                  calls_data |-> calls.data,
                  email_failed |-> email_result.failed,
                  validation_errors |-> <<>>]
        ELSE [called |-> TRUE, is_valid |-> FALSE, calls_success |-> calls.success,
              email_data |-> IF email_success THEN email_result.successful ELSE NoneTable,
              calls_data |-> IF calls.success THEN calls.data ELSE NoneTable,
              email_failed |-> IF email_success THEN email_result.failed ELSE NoneTable,
              validation_errors |-> all_validation_errors]

\* The calls files: none, one without rows, one without the Email column, and
\* one with every required column
CallsRow == [Date |-> MonthText(13, 7, 0), Call_Duration |-> Num(1), Email |-> <<"a", "@">>]

CallsFiles ==
    {NoneFile,
     Frame(required_calls_columns, <<>>),
     Frame(required_calls_columns \ {"Email"}, Indexed(<<CallsRow>>)),
     Frame(required_calls_columns, Indexed(<<CallsRow>>))}

\* process_combined_files once its call of process_files has returned
ProcessCombined ==
    /\ pc = "done"
    /\ ~combined.called
    /\ \E calls_file \in CallsFiles :
        combined' = process_combined_files(result, calls_file)
    /\ UNCHANGED <<files, pc, validation, original_send_count, send_df, open_df,
                   contacts_df, phase1, send_open, contacts_result, result,
                   dashboard, outputs>>

\* The header sets sheets_validator is given: for every mapping entry the
\* file has the user column, the system column or neither; a file with both
\* would hold two columns of one name after the renaming.
HeaderChoices(role) ==
    LET m == column_mappings(role)
        names == UNION {{m[i][1], m[i][2]} : i \in 1..Len(m)}
        Both(cols) == \E i \in 1..Len(m) :
                        m[i][1] # m[i][2] /\ m[i][1] \in cols /\ m[i][2] \in cols
    IN  {cols \in SUBSET names : ~Both(cols)}

OneSendRow ==
    Indexed(<< [recipient_name |-> <<"a">>, sent_date |-> DateText(13, 7, 0),
                Recipient_Email |-> <<"a", "@">>] >>)

OneOpenRow ==
    Indexed(<< [recipient_name |-> <<"a">>, sent_date |-> DateText(13, 7, 0),
                Views |-> Num(2), Clicks |-> Num(1)] >>)

OneContactRow ==
    Indexed(<< [Email |-> <<"a", "@">>, Company_URL |-> <<"U">>] >>)

InitColumns ==
    /\ files \in {[send_mails |-> s, open_mails |-> o, contacts |-> c] :
                    s \in {NoneFile} \cup
                          {Frame(h, OneSendRow) : h \in HeaderChoices("send_mails")},
                    o \in {NoneFile} \cup
                          {Frame(h, OneOpenRow) : h \in HeaderChoices("open_mails")},
                    c \in {NoneFile} \cup
                          {Frame(h, OneContactRow) : h \in HeaderChoices("contacts")}}
    /\ pc = "start"
    /\ validation = NoValidation
    /\ original_send_count = 0
    /\ send_df = <<>>
    /\ open_df = <<>>
    /\ contacts_df = <<>>
    /\ phase1 = NoPhase1
    /\ send_open = NoSendOpen
    /\ contacts_result = NoContactsResult
    /\ result = NoResult
    /\ dashboard = NoDashboard
    /\ outputs = {}
    /\ combined = NoCombined

NextColumns == Validate

SpecColumns == InitColumns /\ [][NextColumns]_vars

\* Uploads of every kind sheets_validator tells apart: a role that is None, a
\* file without data rows, a file with a wrong header, and files whose rows
\* hold well-formed cells or cells the content validation counts
MaxFileSend == 2

FileSendCells ==
    [recipient_name : {<<"a">>},
     sent_date : {DateText(13, 7, 0), InvalidDate},
     Recipient_Email : {<<"a", "@">>}]
    \cup
    [recipient_name : {<<"a">>},
     sent_date : {NaD, MonthText(13, 7, 0)},
     Recipient_Email : {<<"a", "@">>}]
    \cup
    [recipient_name : {<<"a">>},
     sent_date : {DateText(13, 7, 0)},
     Recipient_Email : {<<"a">>}]

FileOpenCells ==
    [recipient_name : {<<"a">>},
     sent_date : {DateText(13, 7, 0), InvalidDate},
     Views : {Num(2)}, Clicks : {Num(1)}]
    \cup
    [recipient_name : {<<"a">>},
     sent_date : {DateText(13, 7, 0)},
     Views : {Txt, NaNum}, Clicks : {Num(1)}]
    \cup
    [recipient_name : {<<"a">>},
     sent_date : {DateText(13, 7, 0)},
     Views : {Num(2)}, Clicks : {Txt}]

FileContactCells ==
    [Email : {<<"a", "@">>, <<"a">>, NaN}, Company_URL : {<<"U">>}]

WrongCols == {"wrong_column"}

\* The uploads of one role: None, no data rows, a wrong header, or rows
FileChoices(cols, one_row, cells, n) ==
    {NoneFile, Frame(cols, <<>>), Frame(WrongCols, one_row)}
        \cup {Frame(cols, Indexed(r)) : r \in SeqsUpTo(cells, n) \ {<<>>}}

InitFiles ==
    /\ files \in {[send_mails |-> s, open_mails |-> o, contacts |-> c] :
                    s \in FileChoices(SendCols, OneSendRow, FileSendCells, MaxFileSend),
                    o \in FileChoices(OpenCols, OneOpenRow, FileOpenCells, 1),
                    c \in FileChoices(ContactsCols, OneContactRow, FileContactCells, 1)}
    /\ pc = "start"
    /\ validation = NoValidation
    /\ original_send_count = 0
    /\ send_df = <<>>
    /\ open_df = <<>>
    /\ contacts_df = <<>>
    /\ phase1 = NoPhase1
    /\ send_open = NoSendOpen
    /\ contacts_result = NoContactsResult
    /\ result = NoResult
    /\ dashboard = NoDashboard
    /\ outputs = {}
    /\ combined = NoCombined

SpecFiles == InitFiles /\ [][Next]_vars

NextCombined == Next \/ ProcessCombined

\* process_combined_files on the uploaded files of SpecFiles
SpecCombined == InitFiles /\ [][NextCombined]_vars

----------------------------------------------------------------------------
(* Properties *)

Min(S) == CHOOSE x \in S : \A y \in S : x <= y

\* Positions of the records of a list that come from the Send row idx
Positions(list, idx) == {i \in 1..Len(list) : list[i].idx = idx}

\* Index labels of the Open rows of open_df with the e-mail of Send row s and
\* timestamp s.sent_date + n seconds
Candidates(s, n) ==
    {open_df[i].idx : i \in {j \in 1..Len(open_df) :
        /\ open_df[j].recipient_name = s.recipient_name
        /\ open_df[j].sent_date.d = s.sent_date.d
        /\ open_df[j].sent_date.m = s.sent_date.m
        /\ open_df[j].sent_date.s = s.sent_date.s + n}}

\* The increments in lo..hi at which Send row s has a candidate
Occupied(s, lo, hi) == {n \in lo..hi : Candidates(s, n) # {}}

\* C1 (as claimed): after both phases no Open row, identified by its index
\* label, is merged into more than one successful record.
C1_NoDoubleUse ==
    pc = "joined" =>
        \A i, j \in 1..Len(send_open.successful) :
            i # j => send_open.successful[i].open_idx # send_open.successful[j].open_idx

\* C2 (as claimed): when process_files returns tables, the rows of the two
\* tables number original_send_count, the Send rows counted before _clean_data.
C2_Completeness ==
    (pc = "done" /\ ~result.successful.isNone) =>
        Len(result.successful.rows) + Len(result.failed.rows) = result.count

\* C3: every Send row given to the Send-Open join is in exactly one of the two
\* lists, exactly once, after Phase 1 and again after Phase 2, so the lengths
\* of the two lists add up to len(send_df).
C3_JoinPartition ==
    /\ pc \in {"phase1", "joined"} =>
        /\ Len(phase1.successful_matches) + Len(phase1.failed_records) = Len(send_df)
        /\ \A i \in 1..Len(send_df) :
            Cardinality(Positions(phase1.successful_matches, send_df[i].idx))
              + Cardinality(Positions(phase1.failed_records, send_df[i].idx)) = 1
    /\ pc = "joined" =>
        /\ Len(send_open.successful) + Len(send_open.failed) = Len(send_df)
        /\ \A i \in 1..Len(send_df) :
            Cardinality(Positions(send_open.successful, send_df[i].idx))
              + Cardinality(Positions(send_open.failed, send_df[i].idx)) = 1

\* C3's case: both phases ran, Phase 2 added a success and a failure remains
C3_Witness ==
    /\ pc = "joined"
    /\ Len(send_df) = MaxJoinSend
    /\ Len(send_open.successful) > Len(phase1.successful_matches)
    /\ Len(send_open.failed) > 0

\* C4 (as claimed): a Send row whose first occupied increment in 0..11 holds
\* two or more Open rows of its e-mail ends in the failed list with reason
\* multiple_matches_at_plus_{n}_seconds and is matched to no Open row.
C4_AmbiguityKept ==
    pc = "joined" =>
        \A i \in 1..Len(send_df) :
            LET s == send_df[i]
                occ == Occupied(s, 0, 11)
            IN  (occ # {} /\ Cardinality(Candidates(s, Min(occ))) >= 2) =>
                    /\ Positions(send_open.successful, s.idx) = {}
                    /\ \E k \in Positions(send_open.failed, s.idx) :
                        send_open.failed[k].failure_reason
                            = [tag |-> "multiple_matches_at_plus_seconds", n |-> Min(occ)]

\* A Send row is matchable within the 0-11 second window: its first occupied
\* increment holds exactly one Open row of its e-mail
Matchable(s) ==
    LET occ == Occupied(s, 0, 11)
    IN  occ # {} /\ Cardinality(Candidates(s, Min(occ))) = 1

\* C5: a Send row matchable within the 0-11 second window is a Phase 1
\* success, merged with the Open row at its first occupied increment, and is
\* not among the failed records handed to Phase 2.
C5_MatchableInPhase1 ==
    pc \in {"phase1", "joined"} =>
        \A i \in 1..Len(send_df) :
            LET s == send_df[i]
            IN  Matchable(s) =>
                    /\ Positions(phase1.failed_records, s.idx) = {}
                    /\ \E k \in Positions(phase1.successful_matches, s.idx) :
                        phase1.successful_matches[k].open_idx
                            \in Candidates(s, Min(Occupied(s, 0, 11)))

\* C5's case: two matchable Send rows, the later at increment +11 and the
\* earlier processed one already merged with the same Open row
C5_Witness ==
    /\ pc = "phase1"
    /\ Len(phase1.successful_matches) = 2
    /\ Matchable(send_df[1])
    /\ Matchable(send_df[2])
    /\ Min(Occupied(send_df[2], 0, 11)) = 11
    /\ phase1.successful_matches[1].open_idx = phase1.successful_matches[2].open_idx

\* The pipeline reached the contacts join and no Send-Open-successful record
\* has the Email of a contact as its Recipient Email
ZeroContactsMatched ==
    /\ pc = "done"
    /\ contacts_result.len # 0
    /\ \A i \in 1..Len(send_open.successful) : \A j \in 1..Len(contacts_df) :
        send_open.successful[i].Recipient_Email # contacts_df[j].Email

\* C6 (as claimed): when no Send-Open-successful record matches a contact,
\* process_files returns no tables, the dedicated message and the original
\* send count.
C6_ZeroMatchMessage ==
    ZeroContactsMatched =>
        /\ result.successful.isNone
        /\ result.failed.isNone
        /\ \E k \in 1..Len(result.errors) :
            result.errors[k][1] = "No records matched with contacts sheet"
        /\ result.count = original_send_count

\* C7: process_files answers every exception itself, and the first two
\* elements of the tuple it returns are both tables or both None; without
\* tables there is at least one error message.
C7_BothOrNeither ==
    pc = "done" =>
        /\ result.successful.isNone <=> result.failed.isNone
        /\ result.successful.isNone => result.errors # <<>>

\* C7's case: an exception raised inside process_files is answered by the
\* 4-tuple of the except clause
C7_Witness ==
    /\ pc = "done"
    /\ validation.is_valid
    /\ result.successful.isNone
    /\ result.failed.isNone
    /\ result.errors[1][1] = "Processing Error"

\* Trimmed and lower-cased
Normalized(text) == Lower(Strip(text))

\* C8 (as claimed): a record whose Recipient Email equals an Email of the
\* contacts file after trimming and lower-casing both is not in the failed
\* table with reason 'Send email not found in contacts'.
C8_JoinNormalized ==
    (pc = "done" /\ ~result.failed.isNone) =>
        \A i \in 1..Len(result.failed.rows) :
            result.failed.rows[i].failure_reason.tag = "Send email not found in contacts"
                => ~\E j \in 1..Len(files.contacts.rows) :
                        Normalized(files.contacts.rows[j].Email)
                            = Normalized(result.failed.rows[i].Recipient_Email)

\* The rows of a failed table that carry the contacts reason
ContactFailures(rows) ==
    {i \in 1..Len(rows) :
        rows[i].failure_reason.tag = "Send email not found in contacts"}

\* C9: the contacts join puts every Send-Open-successful record in exactly one
\* of its two lists, and in the returned tables the Send-Open-successful
\* records number len(successful) + the failed rows with the contacts reason.
C9_ContactsPartition ==
    /\ (pc \in {"contacts", "done"} /\ contacts_result.len = 2) =>
        /\ Len(send_open.successful)
            = Len(contacts_result.successful.rows) + Len(contacts_result.failed.rows)
        /\ \A i \in 1..Len(send_open.successful) :
            LET idx == send_open.successful[i].idx
            IN  Cardinality(Positions(contacts_result.successful.rows, idx))
                  + Cardinality(Positions(contacts_result.failed.rows, idx)) = 1
        /\ ContactFailures(contacts_result.failed.rows)
            = 1..Len(contacts_result.failed.rows)
    /\ (pc = "done" /\ ~result.successful.isNone) =>
        Len(send_open.successful)
            = Len(result.successful.rows)
                + Cardinality(ContactFailures(result.failed.rows))

\* C9's case: tables are returned, one record joined a contact, one did not,
\* and one Send row failed the Send-Open join before
C9_Witness ==
    /\ pc = "done"
    /\ ~result.successful.isNone
    /\ Len(result.successful.rows) > 0
    /\ ContactFailures(result.failed.rows) # {}
    /\ Len(send_open.failed) > 0

\* The aliases the role accepts for a canonical column
Aliases(role, col) ==
    LET m == column_mappings(role)
    IN  {m[i][1] : i \in {j \in 1..Len(m) : m[j][2] = col /\ m[j][1] # col}}

\* C10 (as claimed): the column check accepts a non-empty file exactly when,
\* for every canonical required column of its role, it has that header or one
\* of the role's aliases for it; an accepted file ends with canonical names.
C10_ColumnCheck ==
    pc # "start" =>
        \A k \in {"send_mails", "open_mails", "contacts"} :
            ~files[k].isNone =>
                /\ k \in validation.validated_files
                    <=> \A col \in required_columns(k) :
                            col \in files[k].cols
                                \/ Aliases(k, col) \cap files[k].cols # {}
                /\ k \in validation.validated_files
                    => required_columns(k) \subseteq final_columns(k, files[k].cols)

\* The file of a role fails one of the checks of sheets_validator: it has no
\* data rows, fails the column check, or has a content finding among its
\* first 10 rows
ContentFinding(k) == ~validate_data_content(files[k].rows, k).is_valid

FailsCheck(k) ==
    \/ Len(files[k].rows) = 0
    \/ ~ColumnCheck(k, files[k].cols)
    \/ ContentFinding(k)

\* The messages of sheets_validator that name the role
MessagesOf(k) ==
    {i \in 1..Len(validation.error_messages) : validation.error_messages[i][2] = k}

C12_ContentNonFatal ==
    pc # "start" =>
        \A k \in {"send_mails", "open_mails", "contacts"} :
            (/\ ~files[k].isNone
             /\ Len(files[k].rows) > 0
             /\ ColumnCheck(k, files[k].cols)
             /\ ContentFinding(k)) => k \in validation.validated_files

\* The closed vocabulary of failure reasons
Vocabulary ==
    {[tag |-> "no_open_records_for_email", n |-> 0],
     [tag |-> "no_match_within_seconds", n |-> 11],
     [tag |-> "no_match_within_seconds", n |-> 60],
     [tag |-> "Send email not found in contacts", n |-> 0]}
    \cup {[tag |-> "multiple_matches_at_plus_seconds", n |-> k] : k \in 0..11}
    \cup {[tag |-> "multiple_matches_at_plus_seconds_phase2", n |-> k] : k \in 12..60}

\* C13: every record of the failed lists of the Send-Open join, and every row
\* of the failed table process_files returns, has a failure_reason of the
\* closed vocabulary, with n in 0..11 for Phase 1 and in 12..60 for Phase 2.
C13_ClosedVocabulary ==
    /\ \A i \in 1..Len(phase1.failed_records) :
            phase1.failed_records[i].failure_reason \in Vocabulary
    /\ \A i \in 1..Len(send_open.failed) :
            send_open.failed[i].failure_reason \in Vocabulary
    /\ (pc = "done" /\ ~result.failed.isNone) =>
            \A i \in 1..Len(result.failed.rows) :
                result.failed.rows[i].failure_reason \in Vocabulary

\* C13's case: tables are returned and the failed table holds a Phase 2
\* ambiguity at the last increment, +60
C13_Witness ==
    /\ pc = "done"
    /\ ~result.failed.isNone
    /\ \E i \in 1..Len(result.failed.rows) :
            result.failed.rows[i].failure_reason
                = [tag |-> "multiple_matches_at_plus_seconds_phase2", n |-> 60]

\* The rows of a table that have a Company URL
WithUrl(rows) == {i \in 1..Len(rows) : ~IsNa(rows[i].Company_URL)}

\* The first row of the table with the Company URL of row i
FirstSeen(rows, i) ==
    Min({j \in 1..Len(rows) : rows[j].Company_URL = rows[i].Company_URL})

\* Company URL ID numbers the distinct Company URLs of rows 1..k in order of
\* first appearance
IdsInFirstSeenOrder(rows) ==
    LET urls == {rows[i].Company_URL : i \in WithUrl(rows)}
    IN  /\ {rows[i].Company_URL_ID : i \in WithUrl(rows)} = 1..Cardinality(urls)
        /\ \A i, j \in WithUrl(rows) :
            /\ rows[i].Company_URL_ID = rows[j].Company_URL_ID
                <=> rows[i].Company_URL = rows[j].Company_URL
            /\ FirstSeen(rows, i) < FirstSeen(rows, j)
                => rows[i].Company_URL_ID < rows[j].Company_URL_ID

\* C14: in the successful table of the contacts join, and in the one
\* process_files returns, the Company URL IDs are 1..k for the k distinct
\* non-null Company URLs in order of first appearance: same ID if and only if
\* same Company URL, smaller ID for the URL seen first.
C14_CompanyUrlIds ==
    /\ (pc \in {"contacts", "done"} /\ contacts_result.len = 2) =>
            IdsInFirstSeenOrder(contacts_result.successful.rows)
    /\ (pc = "done" /\ ~result.successful.isNone) =>
            IdsInFirstSeenOrder(result.successful.rows)

\* C14's case: three returned records, the first and the third of one
\* company and the second of another
C14_Witness ==
    /\ pc = "done"
    /\ ~result.successful.isNone
    /\ Len(result.successful.rows) = 3
    /\ result.successful.rows[1].Company_URL = result.successful.rows[3].Company_URL
    /\ result.successful.rows[2].Company_URL # result.successful.rows[1].Company_URL
    /\ WithUrl(result.successful.rows) = 1..3
    /\ result.successful.rows[3].Company_URL_ID = 1

\* The first row of the directory with the Email
FirstOfEmail(email) == Min({j \in 1..Len(contacts_df) : contacts_df[j].Email = email})

\* C15: every record joined on an Email carries the Email and the Company URL
\* of the first row of the directory with that Email, whatever rows of the
\* same Email follow.
C15_FirstContactWins ==
    (pc \in {"contacts", "done"} /\ contacts_result.len = 2) =>
        \A i \in 1..Len(contacts_result.successful.rows) :
            LET r == contacts_result.successful.rows[i]
                first == contacts_df[FirstOfEmail(r.Recipient_Email)]
            IN  /\ r.Email = first.Email
                /\ r.Company_URL = first.Company_URL

\* C15's case: the directory holds one Email twice with different Company
\* URLs and a record was joined on it
C15_Witness ==
    /\ pc = "done"
    /\ Len(contacts_df) = 2
    /\ contacts_df[1].Email = contacts_df[2].Email
    /\ contacts_df[1].Company_URL # contacts_df[2].Company_URL
    /\ ~result.successful.isNone
    /\ Len(result.successful.rows) > 0

\* The rows of the input table whose index labels are in the cleaned table
KeptLabels(rows) == {rows[i].idx : i \in 1..Len(rows)}

\* C16: _clean_data does not raise because of an unparseable sent_date, which
\* becomes the null timestamp (it raises only when a text column of the frame
\* holds no text at all); of a send or open table exactly the rows whose
\* recipient_name or coerced sent_date is null are removed, of a contacts
\* table exactly the rows whose Email is null, the others are kept in order
\* with a Timestamp as sent_date.
C16_CleanDropsNullKeys ==
    LET s_in == files["send_mails"].rows
        o_in == files["open_mails"].rows
        c_in == files["contacts"].rows
        NullKey(r) == IsNa(r.recipient_name) \/ ~ParsesWithFormat(r.sent_date)
        HasText(rows, Col(_)) == rows = <<>> \/ \E i \in 1..Len(rows) : ~IsNa(Col(rows[i]))
        Name(r) == r.recipient_name
        Mail(r) == r.Email
        Url(r) == r.Company_URL
        Ordered(rows) == \A i, j \in 1..Len(rows) : i < j => rows[i].idx < rows[j].idx
    IN  /\ pc = "done" =>
            ~(HasText(s_in, Name) /\ HasText(o_in, Name)
                /\ HasText(c_in, Mail) /\ HasText(c_in, Url))
        /\ pc = "cleaned" =>
            /\ KeptLabels(send_df) = {s_in[i].idx : i \in {j \in 1..Len(s_in) : ~NullKey(s_in[j])}}
            /\ KeptLabels(open_df) = {o_in[i].idx : i \in {j \in 1..Len(o_in) : ~NullKey(o_in[j])}}
            /\ KeptLabels(contacts_df)
                = {c_in[i].idx : i \in {j \in 1..Len(c_in) : ~IsNa(c_in[j].Email)}}
            /\ Ordered(send_df) /\ Ordered(open_df) /\ Ordered(contacts_df)
            /\ \A i \in 1..Len(send_df) : send_df[i].sent_date.fmt = "ts"
            /\ \A i \in 1..Len(open_df) : open_df[i].sent_date.fmt = "ts"

\* C16's case: a send table with an unparseable date in one row and a good
\* row was cleaned: one row is left
C16_Witness ==
    /\ pc = "cleaned"
    /\ Len(files["send_mails"].rows) = 2
    /\ files["send_mails"].rows[1].sent_date = InvalidDate
    /\ Len(send_df) = 1
    /\ Len(contacts_df) = 1
    /\ Len(files["contacts"].rows) = 2

\* C17: _clean_data applied to tables it returned changes nothing: the same
\* rows with the same values.
C17_CleanIdempotent ==
    [][CleanAgain => (send_df' = send_df /\ open_df' = open_df
                        /\ contacts_df' = contacts_df)]_vars

\* C17's case: the first cleaning changed the send table, dropping a row and
\* trimming a name, and the tables were cleaned again
C17_Witness ==
    /\ pc = "recleaned"
    /\ Len(send_df) = 1
    /\ Len(files["send_mails"].rows) = 2
    /\ send_df[1].recipient_name # files["send_mails"].rows[send_df[1].idx + 1].recipient_name
    /\ Len(open_df) = 1
    /\ Len(contacts_df) > 0

\* The records of the table shown whose Company URL is url
RecordsOf(url) ==
    {i \in 1..Len(result.successful.rows) : result.successful.rows[i].Company_URL = url}

\* The Views of a set of records added up, null counted as 0
RECURSIVE ViewsOf(_)
ViewsOf(records) ==
    IF records = {} THEN 0
    ELSE LET i == CHOOSE k \in records : TRUE
             v == result.successful.rows[i].Views
         IN  (IF v.k = "num" THEN v.n ELSE 0) + ViewsOf(records \ {i})

\* The companies of the table shown
CompaniesShown ==
    {result.successful.rows[i].Company_URL : i \in 1..Len(result.successful.rows)} \ {NaN}

\* The company is flagged in the table of show_engagement_table
Flagged(url) ==
    \E k \in 1..Len(dashboard.company_engagement) :
        /\ dashboard.company_engagement[k].Company_URL = url
        /\ dashboard.company_engagement[k].High_Engagement

\* C18: a company is counted by calculate_high_engagement_accounts, and
\* flagged by show_engagement_table, exactly when the sum of the Views of its
\* records, null counted as 0, is greater than 2 times the number of its
\* records; the count is the number of such companies.
C18_HighEngagementRule ==
    (dashboard.counted /\ dashboard.shown) =>
        /\ \A url \in CompaniesShown :
            LET high == ViewsOf(RecordsOf(url)) > 2 * Cardinality(RecordsOf(url))
            IN  /\ url \in dashboard.high_engagement_companies <=> high
                /\ Flagged(url) <=> high
        /\ dashboard.high_engagement_count
            = Cardinality({url \in CompaniesShown :
                            ViewsOf(RecordsOf(url)) > 2 * Cardinality(RecordsOf(url))})
        /\ dashboard.high_engagement_companies \subseteq CompaniesShown

\* C18's case: two companies, one above the threshold and one with a null
\* Views exactly at it, both functions applied
C18_Witness ==
    /\ dashboard.counted
    /\ dashboard.shown
    /\ Cardinality(CompaniesShown) = 2
    /\ dashboard.high_engagement_count = 1
    /\ Len(dashboard.company_engagement) = 2
    /\ ~dashboard.company_engagement[2].High_Engagement
    /\ dashboard.company_engagement[2].Total_Views
            = 2 * dashboard.company_engagement[2].Total_Emails
    /\ \E i \in 1..Len(result.successful.rows) : result.successful.rows[i].Views = NaNum

\* The company has total_emails records with total_views Views in all
HasTotals(url, total_emails, total_views) ==
    /\ Cardinality(RecordsOf(url)) = total_emails
    /\ ViewsOf(RecordsOf(url)) = total_views

\* C19 (as claimed): a company with 5 e-mails and 11 Views is not classified
\* high engagement, a company with 4 e-mails and 11 Views is.
C19_ExamplesAsClaimed ==
    (dashboard.counted /\ dashboard.shown) =>
        \A url \in CompaniesShown :
            /\ HasTotals(url, 5, 11) =>
                    (url \notin dashboard.high_engagement_companies /\ ~Flagged(url))
            /\ HasTotals(url, 4, 11) =>
                    (url \in dashboard.high_engagement_companies /\ Flagged(url))

\* C19 (amended): a company with 5 e-mails and 11 Views is classified high
\* engagement (11 > 10), as is a company with 4 e-mails and 11 Views
\* (11 > 8); a company with 5 e-mails and 10 Views is not (10 = 10).
C19_Examples ==
    (dashboard.counted /\ dashboard.shown) =>
        \A url \in CompaniesShown :
            /\ HasTotals(url, 5, 11) =>
                    (url \in dashboard.high_engagement_companies /\ Flagged(url))
            /\ HasTotals(url, 4, 11) =>
                    (url \in dashboard.high_engagement_companies /\ Flagged(url))
            /\ HasTotals(url, 5, 10) =>
                    (url \notin dashboard.high_engagement_companies /\ ~Flagged(url))

\* C19's case: a company with 5 e-mails and 11 Views went through both
\* functions
C19_Witness ==
    /\ dashboard.counted
    /\ dashboard.shown
    /\ HasTotals(<<"u">>, 5, 11)

\* The Open row of open_df with the index label
OpenRow(label) == open_df[CHOOSE i \in 1..Len(open_df) : open_df[i].idx = label]

\* The candidates of Phase 2: the Open rows Phase 1 did not use
Candidates2(s, n) == Candidates(s, n) \ phase1.used_open_indices

\* The record of the list made from Send row s is the merge with the only
\* Open row of the set
MergedWith(list, s, candidates) ==
    \E k \in Positions(list, s.idx) :
        /\ candidates = {list[k].open_idx}
        /\ list[k].Views = OpenRow(list[k].open_idx).Views
        /\ list[k].Clicks = OpenRow(list[k].open_idx).Clicks

\* The record of the list made from Send row s has the reason
FailedWith(list, s, reason) ==
    \E k \in Positions(list, s.idx) : list[k].failure_reason = reason

\* C20: in Phase 1 a Send row is decided at the smallest increment of 0..11
\* that has an Open row of its e-mail, and in Phase 2 a record Phase 1 failed
\* at the smallest increment of 12..60 that has an unused Open row of its
\* e-mail: one candidate there gives the merge with that row's Views and
\* Clicks, several give the failure naming that increment, whatever Open rows
\* there are at larger increments.
C20_SmallestIncrementDecides ==
    /\ pc \in {"phase1", "joined"} =>
        \A i \in 1..Len(send_df) :
            LET s == send_df[i]
                occ == Occupied(s, 0, 11)
                first == Candidates(s, Min(occ))
            IN  occ # {} =>
                    IF Cardinality(first) = 1
                        THEN MergedWith(phase1.successful_matches, s, first)
                        ELSE FailedWith(phase1.failed_records, s,
                                [tag |-> "multiple_matches_at_plus_seconds", n |-> Min(occ)])
    /\ pc = "joined" =>
        \A i \in 1..Len(send_df) :
            LET s == send_df[i]
                occ == {n \in 12..60 : Candidates2(s, n) # {}}
                first == Candidates2(s, Min(occ))
            IN  (Positions(phase1.failed_records, s.idx) # {} /\ occ # {}) =>
                    IF Cardinality(first) = 1
                        THEN MergedWith(send_open.successful, s, first)
                        ELSE FailedWith(send_open.failed, s,
                                [tag |-> "multiple_matches_at_plus_seconds_phase2",
                                 n |-> Min(occ)])

\* C20's case: a Send row without an Open row in 0..11 has one unused Open
\* row at +12 and two at +20: Phase 2 merges it with the row at +12
C20_Witness ==
    /\ pc = "joined"
    /\ Len(send_df) = 1
    /\ Occupied(send_df[1], 0, 11) = {}
    /\ Cardinality(Candidates2(send_df[1], 12)) = 1
    /\ Cardinality(Candidates2(send_df[1], 20)) = 2
    /\ Len(send_open.successful) = 1

\* The Send row of send_df with the index label
SendRow(label) == send_df[CHOOSE i \in 1..Len(send_df) : send_df[i].idx = label]

\* Index labels of the Send rows Phase 1 failed
Phase1Failed == {phase1.failed_records[k].idx : k \in 1..Len(phase1.failed_records)}

\* C21: Phase 2 works on the Open rows Phase 1 did not use. After both
\* phases no record Phase 2 made successful is merged with an Open row whose
\* index label is in Phase 1's used_open_indices, and the match_count of a
\* Phase 2 ambiguity counts the unused Open rows at that increment only.
C21_Phase2OnlyUnused ==
    pc = "joined" =>
        /\ \A k \in 1..Len(send_open.successful) :
            send_open.successful[k].idx \in Phase1Failed =>
                send_open.successful[k].open_idx \notin phase1.used_open_indices
        /\ \A k \in 1..Len(send_open.failed) :
            LET f == send_open.failed[k]
            IN  f.failure_reason.tag = "multiple_matches_at_plus_seconds_phase2" =>
                    f.match_count =
                        Cardinality(Candidates2(SendRow(f.idx), f.failure_reason.n))

\* C21's case: a Send row Phase 1 failed has, in 12..60, only an Open row
\* that Phase 1 merged into another Send row, and Phase 2 had unused Open
\* rows to work on
C21_Witness ==
    /\ pc = "joined"
    /\ \E i \in 1..Len(send_df) :
        /\ send_df[i].idx \in Phase1Failed
        /\ \E n \in 12..60 :
            Candidates(send_df[i], n) \cap phase1.used_open_indices # {}
        /\ Positions(send_open.failed, send_df[i].idx) # {}
    /\ \E j \in 1..Len(open_df) : open_df[j].idx \notin phase1.used_open_indices

\* Seconds from the Send row of a successful record to the Open row merged
\* into it
OffsetOf(record) == OpenRow(record.open_idx).sent_date.s - record.sent_date.s

\* C22: the windows are 0..11 seconds for Phase 1 and 12..60 seconds for
\* Phase 2, both ends included. A record Phase 1 made successful is merged
\* with an Open row 0 to 11 seconds after its Send row and a record Phase 2
\* made successful with one 12 to 60 seconds after it, so no Open row before
\* the Send row or 61 seconds or more after it is ever merged; a Send row with
\* an Open row at +11 is decided by Phase 1 (merged or ambiguous, never "no
\* match"), and one whose only unused Open row in 0..60 is at +12 or at +60 is
\* merged with it by Phase 2.
C22_Windows ==
    /\ pc \in {"phase1", "joined"} =>
        /\ \A k \in 1..Len(phase1.successful_matches) :
            OffsetOf(phase1.successful_matches[k]) \in 0..11
        /\ \A i \in 1..Len(send_df) :
            Candidates(send_df[i], 11) # {} =>
                \/ Positions(phase1.successful_matches, send_df[i].idx) # {}
                \/ \E k \in Positions(phase1.failed_records, send_df[i].idx) :
                    phase1.failed_records[k].failure_reason.tag =
                        "multiple_matches_at_plus_seconds"
    /\ pc = "joined" =>
        /\ \A k \in 1..Len(send_open.successful) :
            IF send_open.successful[k].idx \in Phase1Failed
                THEN OffsetOf(send_open.successful[k]) \in 12..60
                ELSE OffsetOf(send_open.successful[k]) \in 0..11
        /\ \A i \in 1..Len(send_df) : \A n \in {12, 60} :
            LET s == send_df[i]
            IN  (/\ {m \in 0..60 : Candidates2(s, m) # {}} = {n}
                 /\ Occupied(s, 0, 11) = {}
                 /\ Cardinality(Candidates2(s, n)) = 1) =>
                    /\ s.idx \in Phase1Failed
                    /\ MergedWith(send_open.successful, s, Candidates2(s, n))

\* C22's case: a Send row with Open rows one second before it, at +60 and
\* at +61 is merged by Phase 2 with the row at +60
C22_Witness ==
    /\ pc = "joined"
    /\ Len(send_df) = 1
    /\ Candidates(send_df[1], 0 - 1) # {}
    /\ Candidates(send_df[1], 61) # {}
    /\ Cardinality(Candidates(send_df[1], 60)) = 1
    /\ MergedWith(send_open.successful, send_df[1], Candidates(send_df[1], 60))

\* C23: a Send row with no Open row of its e-mail at 0..11 and exactly one
\* unused Open row at the first occupied increment of 12..60 fails Phase 1
\* with no_match_within_11_seconds and is, after Phase 2, in the successful
\* list with that Open row's Views and Clicks; no record of the successful
\* list has a failure_reason or a match_count field.
C23_RescuedByPhase2 ==
    pc = "joined" =>
        /\ \A i \in 1..Len(send_df) :
            LET s == send_df[i]
                occ == {n \in 12..60 : Candidates2(s, n) # {}}
            IN  (/\ Occupied(s, 0, 11) = {}
                 /\ occ # {}
                 /\ Cardinality(Candidates2(s, Min(occ))) = 1) =>
                    /\ FailedWith(phase1.failed_records, s, no_match_within_11_seconds)
                    /\ MergedWith(send_open.successful, s, Candidates2(s, Min(occ)))
                    /\ Positions(send_open.failed, s.idx) = {}
        /\ \A k \in 1..Len(send_open.successful) :
            {"failure_reason", "match_count"} \cap DOMAIN send_open.successful[k] = {}

\* C23's case: a Send row whose only Open row in 0..60 is an unused one at
\* +60 has failed Phase 1 with "no match" and is in the successful list
C23_Witness ==
    /\ pc = "joined"
    /\ \E i \in 1..Len(send_df) :
        /\ Occupied(send_df[i], 0, 59) = {}
        /\ Cardinality(Candidates2(send_df[i], 60)) = 1
        /\ FailedWith(phase1.failed_records, send_df[i], no_match_within_11_seconds)
        /\ Positions(send_open.successful, send_df[i].idx) # {}

\* The e-mail of the Send row has no Open row that Phase 1 left unused
NoUnusedOpen(email) ==
    \A j \in 1..Len(open_df) :
        open_df[j].recipient_name = email => open_df[j].idx \in phase1.used_open_indices

\* C24: a record Phase 1 failed whose e-mail has no unused Open row after
\* Phase 1 (no Open row at all, every Open row of the e-mail used, or no
\* unused Open row of any e-mail) is in the final failed list exactly as
\* Phase 1 left it, with the same failure_reason and match_count.
C24_CarriedUnchanged ==
    pc = "joined" =>
        \A k \in 1..Len(phase1.failed_records) :
            LET f == phase1.failed_records[k]
            IN  NoUnusedOpen(f.recipient_name) =>
                    /\ \E j \in Positions(send_open.failed, f.idx) : send_open.failed[j] = f
                    /\ \A j \in Positions(send_open.failed, f.idx) :
                        /\ send_open.failed[j].failure_reason = f.failure_reason
                        /\ send_open.failed[j].match_count = f.match_count
                    /\ Positions(send_open.successful, f.idx) = {}

\* C24's case: Phase 1 used every Open row of the e-mail of a record it
\* failed with "no match", and another e-mail has an unused Open row, so
\* Phase 2 runs its loop and skips the record
C24_Witness ==
    /\ pc = "joined"
    /\ \E k \in 1..Len(phase1.failed_records) :
        LET f == phase1.failed_records[k]
        IN  /\ f.failure_reason = no_match_within_11_seconds
            /\ NoUnusedOpen(f.recipient_name)
            /\ \E j \in 1..Len(open_df) : open_df[j].recipient_name = f.recipient_name
            /\ \E j \in Positions(send_open.failed, f.idx) : send_open.failed[j] = f
    /\ \E j \in 1..Len(open_df) : open_df[j].idx \notin phase1.used_open_indices

\* C27 (as claimed): in the final failed list a record has a match_count
\* exactly when its failure_reason is one of the multiple_matches reasons, and
\* then match_count is the number of candidate Open rows at the increment the
\* reason names; records with a no_match or no_open_records reason have none.
C27_MatchCountOnlyWhenAmbiguous ==
    pc = "joined" =>
        \A k \in 1..Len(send_open.failed) :
            LET f == send_open.failed[k]
                s == SendRow(f.idx)
            IN  IF f.failure_reason.tag = "multiple_matches_at_plus_seconds"
                    THEN f.match_count = Cardinality(Candidates(s, f.failure_reason.n))
                ELSE IF f.failure_reason.tag = "multiple_matches_at_plus_seconds_phase2"
                    THEN f.match_count = Cardinality(Candidates2(s, f.failure_reason.n))
                ELSE f.match_count = 0

\* The orders in which the rows of a table can be processed
Orders(rows) ==
    {[i \in 1..Len(rows) |-> rows[f[i]]] :
        f \in {g \in [1..Len(rows) -> 1..Len(rows)] :
                \A i, j \in 1..Len(rows) : g[i] = g[j] => i = j}}

\* The records of a list, without their order
RecordSet(list) == {list[k] : k \in 1..Len(list)}

\* C28: the outcome of each Send row (merged with which Open row, or failed
\* with which reason and match_count) is the same for every order in which
\* the Send rows are processed: the join of any reordering of send_df has the
\* same successful records and the same failed records as the join that ran.
C28_OrderIndependent ==
    pc = "joined" =>
        \A rows \in Orders(send_df) :
            LET other == incremental_datetime_join(phase1_matching(rows, open_df), open_df)
            IN  /\ RecordSet(other.successful) = RecordSet(send_open.successful)
                /\ RecordSet(other.failed) = RecordSet(send_open.failed)
                /\ Len(other.successful) = Len(send_open.successful)
                /\ Len(other.failed) = Len(send_open.failed)

\* C28's case: two Send rows of one recipient, sent at different seconds,
\* have the same Open row among their candidates in 0..60, and the join ran
C28_Witness ==
    /\ pc = "joined"
    /\ Len(send_df) = 2
    /\ send_df[1].sent_date # send_df[2].sent_date
    /\ \E n1, n2 \in 0..60 : Candidates(send_df[1], n1) \cap Candidates(send_df[2], n2) # {}
    /\ Len(send_open.successful) = 1
    /\ Len(send_open.failed) = 1

\* C25: validation completes before any other stage. When sheets_validator
\* reports is_valid = false, process_files has returned (None, None, the
\* validator's messages, 0), no table was normalized, neither join ran and
\* no output file was written; output files exist only once process_files
\* has finished after a Send-Open join and a contacts join that both
\* succeeded.
C25_ValidationFirst ==
    /\ (pc # "start" /\ ~validation.is_valid) =>
        /\ pc = "done"
        /\ result = [successful |-> NoneTable, failed |-> NoneTable,
                     errors |-> validation.error_messages, count |-> 0]
        /\ validation.error_messages # <<>>
        /\ send_df = <<>> /\ open_df = <<>> /\ contacts_df = <<>>
        /\ phase1 = NoPhase1
        /\ send_open = NoSendOpen
        /\ contacts_result = NoContactsResult
        /\ outputs = {}
    /\ pc \notin {"start", "done"} => (validation.is_valid /\ outputs = {})
    /\ outputs # {} =>
        /\ pc = "done"
        /\ validation.is_valid
        /\ contacts_result.len = 2
        /\ result.errors = <<>>
        /\ ~result.successful.isNone

\* C25's case: process_files has returned for files the validator rejected
C25_Witness ==
    /\ pc = "done"
    /\ ~validation.is_valid
    /\ result.errors = validation.error_messages
    /\ result.errors # <<>>
    /\ outputs = {}

\* C26 (as claimed): a Send row and an Open row uploaded with the same
\* DD/MM/YYYY HH:MM:SS text in sent_date have, after validation and
\* normalization, the same timestamp, for every valid date, the ones with a
\* day of 12 or less included.
C26_SameTextSameTimestamp ==
    pc = "cleaned" =>
        \A i \in 1..Len(send_df), j \in 1..Len(open_df) :
            LET send_text == files.send_mails.rows[send_df[i].idx + 1].sent_date
                open_text == files.open_mails.rows[open_df[j].idx + 1].sent_date
            IN  (send_text = open_text /\ send_text.fmt = "dmy") =>
                    send_df[i].sent_date = open_df[j].sent_date

\* The text contains the other, character by character
LiteralContains(s, text) ==
    \E i \in 1..(Len(s) - Len(text) + 1) : SubSeq(s, i, i + Len(text) - 1) = text

\* The uploaded Send row has a Domain with 'loopwork.co' in it, in any case
IsLoopworkRow(r) ==
    /\ "Domain" \in DOMAIN r
    /\ ~IsNa(r.Domain)
    /\ LiteralContains(Lower(r.Domain), DomainPattern)

\* Index labels of the rows of a table
Labels(rows) == {rows[k].idx : k \in 1..Len(rows)}

\* C29 (as claimed): the Send rows whose Domain contains 'loopwork.co', in
\* any case, are removed during validation: they are not in the working Send
\* table, not counted in original_send_count and in neither returned table.
\* Every other uploaded Send row, and every row of a file without a Domain
\* column, is still in the Send table validation hands on.
C29_DomainFilter ==
    (pc # "start" /\ validation.is_valid) =>
        LET uploaded == files.send_mails.rows
            loopwork == {uploaded[k].idx : k \in {j \in 1..Len(uploaded) :
                                                    IsLoopworkRow(uploaded[j])}}
        IN  /\ Labels(send_df) \cap loopwork = {}
            /\ original_send_count = Len(uploaded) - Cardinality(loopwork)
            /\ pc = "done" /\ ~result.successful.isNone =>
                /\ Labels(result.successful.rows) \cap loopwork = {}
                /\ Labels(result.failed.rows) \cap loopwork = {}
            /\ pc = "validated" => Labels(send_df) = Labels(uploaded) \ loopwork

\* process_files returned its two tables and no message
EmailSucceeded == ~result.successful.isNone /\ result.errors = <<>>

\* C30 (as claimed): process_combined_files treats the e-mail files and the
\* calls file independently: is_valid is true only when both succeeded, and
\* when the e-mail processing succeeded and only the calls file is missing or
\* invalid, the result has is_valid false and still carries the processed
\* email_data and email_failed tables, not None.
C30_IndependentInputs ==
    combined.called =>
        /\ combined.is_valid => (EmailSucceeded /\ combined.calls_success)
        /\ (EmailSucceeded /\ ~combined.calls_success) =>
            /\ ~combined.is_valid
            /\ combined.email_data = result.successful
            /\ combined.email_failed = result.failed

====
